---- MODULE Spec2Model ----
(***************************************************************************)
(* ct-salto-sync: room bookings of the booking system (CT) are turned into *)
(* per-person zone lists and written to the staging table that the access  *)
(* control system (Salto) consumes.                                        *)
(*                                                                         *)
(* Part 1 - the staging reconciler of src/src/db.rs.                       *)
(***************************************************************************)
EXTENDS Integers, Sequences, FiniteSets, TLC

VARIABLES
    table,      \* committed rows of salto_staging
    txLog,      \* statements executed inside the open transaction, in order
    dbPc,       \* position inside overwrite_staging_table_with
    dbErr,      \* the DBError the last call returned, or "none"
    staleLeft,  \* existing_outdated_entries still to be blanked
    entries,    \* the Vec<StagingEntry> handed to the reconciler
    nextEntry,  \* index of the next entry of the upsert loop
    existing,   \* the ExtIDs the SELECT of this call returned
    quiet,      \* TRUE while Salto has not touched the table since the last commit
    snapshot,   \* <<rows>> left by the previous run when the same entries are run again
    before,     \* history: the committed rows the last commit replaced
    wrote,      \* history: TRUE once the current call / cycle has committed
    pc,         \* position of the sync task (keep_bookings_up_to_date / sync_once)
    now,        \* the clock (chrono::Utc::now, tokio time)
    cfg,        \* config.global: prehold_time, posthold_time, sync_frequency
    nextTick,   \* deadline of the next tick of the tokio interval
    shutdown,   \* TRUE once InShutdown::Yes was sent on the watch channel
    signalledInFlight, \* history: InShutdown::Yes was sent while a cycle was in flight
    bookings,   \* the Vec<Booking> get_relevant_bookings returned
    convNow,    \* `now` as read by convert_to_staging_entries
    zoneLists,  \* ext_zone_id_list_by_transponder
    extIds,     \* person_ext_ids_by_transponder
    stagesOk,   \* history: the stages of the current cycle that returned Ok
    cycleErr,   \* what the last sync_once returned: "none" (Ok) or the failing side
    pages,      \* the non-empty pages of the Salto directory, in order
    served,     \* how many of them the server has delivered in this call
    keys,       \* the transponders get_ext_ids_by_transponder was called with
    rPc,        \* position inside get_ext_ids_by_transponder
    res,        \* its HashMap<i64, Option<String>>
    sErr,       \* the SaltoApiError the last call returned, or "none"
    on_last_page,               \* SaltoUserStream: raw records not yet yielded
    last_page_full_last_entry,  \* SaltoUserStream: the cursor
    current_future,             \* SaltoUserStream: "none" or "pending"
    requests,   \* history: the startingItem of every page request of this call
    yielded,    \* history: the items the stream has yielded in this call
    polls,      \* history: how often poll_next returned Pending for the current fetch
    calls,      \* history: how many calls of get_ext_ids_by_transponder were started
    failures,   \* history: how many page fetches of this stream have failed
    earlier,    \* history: <<how the previous call ended>>, or <<>> in the first call
    sigPc,      \* position of the signal_handler task
    sigResult,  \* what signal_handler returned: "none" (running), "Ok" or "Err"
    trigger,    \* history: the event that made signal_handler leave, or "none"
    ctIn,       \* what CT holds: one raw booking and the answers to the lookups for it
    cPc,        \* position of the resolution of that booking in get_relevant_bookings
    cTimes,     \* the (start, end) strings chosen for the booking
    cPermitted, \* the permitted transponders collected for the booking
    cOut,       \* the Result the resolution of the booking ends with
    password,   \* config.salto.password, a sequence of characters
    aPc,        \* position of salto_password_hash
    raw_bytes,  \* history: the 32 bytes salto_salt has drawn
    complete_hash, \* the String salto_password_hash returns
    mServer,    \* what CT answers to the member requests of one group, page by page
    mPage,      \* get_transponder_ids_in_group: the page counter
    mRes,       \* get_transponder_ids_in_group: the Vec<i64> collected so far
    mPc,        \* position of get_transponder_ids_in_group: "idle", "loop" or "returned"
    mOut,       \* the Result get_transponder_ids_in_group returned
    mRequests   \* history: the page numbers requested, in the order of the requests

dbVars == <<table, txLog, dbPc, dbErr, staleLeft, entries, nextEntry, existing, quiet, snapshot, before,
            wrote>>
syncVars == <<pc, now, cfg, nextTick, shutdown, signalledInFlight, bookings, convNow, zoneLists, extIds, stagesOk,
              cycleErr>>
saltoVars == <<pages, served, keys, rPc, res, sErr, on_last_page, last_page_full_last_entry,
               current_future, requests, yielded, polls, calls, failures, earlier>>
signalVars == <<sigPc, sigResult, trigger>>
ctVars == <<ctIn, cPc, cTimes, cPermitted, cOut>>
authVars == <<password, aPc, raw_bytes, complete_hash>>
memberVars == <<mServer, mPage, mRes, mPc, mOut, mRequests>>
vars == <<table, txLog, dbPc, dbErr, staleLeft, entries, nextEntry, existing, quiet, snapshot, before,
          wrote, pc, now, cfg, nextTick, shutdown, signalledInFlight, bookings, convNow, zoneLists, extIds, stagesOk,
          cycleErr, pages, served, keys, rPc, res, sErr, on_last_page, last_page_full_last_entry,
          current_future, requests, yielded, polls, calls, failures, earlier, sigPc, sigResult, trigger, ctIn, cPc, cTimes,
          cPermitted, cOut, password, aPc, raw_bytes, complete_hash, mServer, mPage, mRes, mPc,
          mOut, mRequests>>

----------------------------------------------------------------------------
(* Bounds and sample universes                                             *)

MaxEntries == 2
MaxHold == 1
MaxSync == 2

\* an interval whose first tick comes one period after its creation
first_deadline_after_period(created, period) == created + period

\* tokio::time::interval(period): the first tick completes at the time of creation
first_deadline(created, period) == created

\* config.global after deserialisation; tokio's interval needs a period > 0
Configs ==
    [prehold_time : 0..MaxHold, posthold_time : 0..MaxHold, sync_frequency : 1..MaxSync]

EmptyMap == [t \in {} |-> <<>>]

ExtIds == {"E1", "E2"}

NULL == "NULL"

\* deployment offset of chrono::Local against UTC, in model time units
UtcOffset == 1

\* config.salto.timetable_id (serde default u16::default)
timetable_id == 0

\* with_timezone(&chrono::Local) followed by the strftime rendering
LocalTime(t) == t + UtcOffset

\* {"zone-ext-id",timetable,start,end}: the four fields of one grant record
salto_single_permitted_zone_format(zone_ext_id, tt, start_time, end_time) ==
    <<zone_ext_id, tt, LocalTime(start_time), LocalTime(end_time)>>

\* zone lists offered to the reconciler when it is exercised on its own
DbZoneLists ==
    {<<>>} \cup
    {<<salto_single_permitted_zone_format("Z1", timetable_id, s, s + 1)>> : s \in 0..1}

StagingEntry == [ext_user_id : ExtIds, ext_zone_id_list : DbZoneLists]

RECURSIVE SeqsUpTo(_, _)
SeqsUpTo(S, n) ==
    IF n = 0 THEN {<<>>}
    ELSE LET shorter == SeqsUpTo(S, n - 1)
         IN  shorter \cup {Append(q, x) : q \in {p \in shorter : Len(p) = n - 1}, x \in S}

EntryLists == SeqsUpTo(StagingEntry, MaxEntries)

----------------------------------------------------------------------------
(* The statements of db.rs, as functions on a set of rows                  *)

\* column values of a row created by the INSERT arm (schema defaults)
InsertDefaults ==
    [ToBeProcessedBySalto |-> 1, ProcessedDateTime |-> NULL,
     ErrorCode |-> NULL, ErrorMessage |-> NULL]

InsertedRow(entry) ==
    [ExtID |-> entry.ext_user_id,
     ExtZoneIDList |-> entry.ext_zone_id_list,
     ToBeProcessedBySalto |-> InsertDefaults.ToBeProcessedBySalto,
     ProcessedDateTime |-> InsertDefaults.ProcessedDateTime,
     ErrorCode |-> InsertDefaults.ErrorCode,
     ErrorMessage |-> InsertDefaults.ErrorMessage]

\* INSERT without the ON CONFLICT arm
upsert_insert_only(tbl, entry) == tbl \cup {InsertedRow(entry)}

\* ON CONFLICT arm that extends the stored list instead of replacing it
upsert_appending(tbl, entry) ==
    IF \E r \in tbl : r.ExtID = entry.ext_user_id
    THEN {IF r.ExtID = entry.ext_user_id
          THEN [r EXCEPT !.ExtZoneIDList = r.ExtZoneIDList \o entry.ext_zone_id_list,
                         !.ToBeProcessedBySalto = 1,
                         !.ProcessedDateTime = NULL,
                         !.ErrorCode = NULL,
                         !.ErrorMessage = NULL]
          ELSE r : r \in tbl}
    ELSE tbl \cup {InsertedRow(entry)}

\* ON CONFLICT DO NOTHING
upsert_keeping_old(tbl, entry) ==
    IF \E r \in tbl : r.ExtID = entry.ext_user_id
    THEN tbl
    ELSE tbl \cup {InsertedRow(entry)}

\* ON CONFLICT arm that leaves a row alone when its list is already the new one
upsert_unless_unchanged(tbl, entry) ==
    IF \E r \in tbl : r.ExtID = entry.ext_user_id
    THEN {IF r.ExtID = entry.ext_user_id /\ r.ExtZoneIDList # entry.ext_zone_id_list
          THEN [r EXCEPT !.ExtZoneIDList = entry.ext_zone_id_list,
                         !.ToBeProcessedBySalto = 1,
                         !.ProcessedDateTime = NULL,
                         !.ErrorCode = NULL,
                         !.ErrorMessage = NULL]
          ELSE r : r \in tbl}
    ELSE tbl \cup {InsertedRow(entry)}

\* INSERT ... ON CONFLICT (ExtID) DO UPDATE SET ...
upsert_staging_entry(tbl, entry) ==
    IF \E r \in tbl : r.ExtID = entry.ext_user_id
    THEN {IF r.ExtID = entry.ext_user_id
          THEN [r EXCEPT !.ExtZoneIDList = entry.ext_zone_id_list,
                         !.ToBeProcessedBySalto = 1,
                         !.ProcessedDateTime = NULL,
                         !.ErrorCode = NULL,
                         !.ErrorMessage = NULL]
          ELSE r : r \in tbl}
    ELSE tbl \cup {InsertedRow(entry)}

\* SELECT ExtID FROM salto_staging
get_existing_entries_by_extid(tbl) == {r.ExtID : r \in tbl}

\* DELETE FROM salto_staging WHERE ExtID = $1
remove_deleting_row(tbl, ext_id) == {r \in tbl : r.ExtID # ext_id}

\* UPDATE salto_staging SET ExtZoneIDList = '' WHERE ExtID = $1
remove_entry_by_extid(tbl, ext_id) ==
    {IF r.ExtID = ext_id THEN [r EXCEPT !.ExtZoneIDList = <<>>] ELSE r : r \in tbl}

\* the ids read from the table, the filter left out
existing_entries_unfiltered(ids, es) == ids

\* the filter of overwrite_staging_table_with: ids no new entry names
existing_outdated_entries(ids, es) ==
    {id \in ids : \A i \in DOMAIN es : es[i].ext_user_id # id}

\* one logged statement applied to a set of rows
ApplyStatement(tbl, st) ==
    IF st.op = "remove" THEN remove_entry_by_extid(tbl, st.ext_id)
    ELSE upsert_staging_entry(tbl, st.entry)

RECURSIVE ApplyLog(_, _)
ApplyLog(tbl, log) ==
    IF log = <<>> THEN tbl
    ELSE ApplyLog(ApplyStatement(tbl, Head(log)), Tail(log))

\* what a statement inside the transaction sees
TxView == ApplyLog(table, txLog)

\* dropping the transaction without commit leaves the statements applied
rollback_keeping_writes(tbl, log) == ApplyLog(tbl, log)

\* dropping the sqlx Transaction without commit rolls it back
rollback(tbl, log) == tbl

\* tx.commit()
commit(tbl, log) == ApplyLog(tbl, log)

----------------------------------------------------------------------------
(* overwrite_staging_table_with, statement by statement                    *)

DbIdle == dbPc \in {"idle", "ok", "err"}

\* a caller hands a list of entries to the reconciler
call_overwrite ==
    /\ DbIdle
    /\ \E es \in EntryLists : entries' = es
    /\ dbPc' = "begin"
    /\ dbErr' = "none"
    /\ txLog' = <<>>
    /\ staleLeft' = {}
    /\ existing' = {}
    /\ nextEntry' = 1
    /\ quiet' = FALSE
    /\ snapshot' = <<>>
    /\ before' = {}
    /\ wrote' = FALSE
    /\ UNCHANGED table
    /\ UNCHANGED syncVars
    /\ UNCHANGED <<saltoVars, signalVars, ctVars, authVars, memberVars>>

\* the caller runs the reconciler once more with the entries of the run that
\* has just committed
call_overwrite_again ==
    /\ dbPc = "ok"
    /\ quiet
    /\ snapshot' = <<table>>
    /\ dbPc' = "begin"
    /\ dbErr' = "none"
    /\ txLog' = <<>>
    /\ staleLeft' = {}
    /\ existing' = {}
    /\ nextEntry' = 1
    /\ before' = {}
    /\ wrote' = FALSE
    /\ UNCHANGED <<table, entries, quiet>>
    /\ UNCHANGED syncVars
    /\ UNCHANGED <<saltoVars, signalVars, ctVars, authVars, memberVars>>

\* pool.begin()
overwrite_begin ==
    /\ dbPc = "begin"
    /\ dbPc' = "read"
    /\ UNCHANGED <<table, txLog, dbErr, staleLeft, entries, nextEntry, existing, quiet, snapshot, before, wrote>>
    /\ UNCHANGED syncVars
    /\ UNCHANGED <<saltoVars, signalVars, ctVars, authVars, memberVars>>

\* get_existing_entries_by_extid(&mut tx) and the lazy filter over it
overwrite_read ==
    /\ dbPc = "read"
    /\ existing' = get_existing_entries_by_extid(TxView)
    /\ staleLeft' = existing_outdated_entries(existing', entries)
    /\ dbPc' = "remove"
    /\ UNCHANGED <<table, txLog, dbErr, entries, nextEntry, quiet, snapshot, before, wrote>>
    /\ UNCHANGED syncVars
    /\ UNCHANGED <<saltoVars, signalVars, ctVars, authVars, memberVars>>

\* one turn of: for entry in existing_outdated_entries { remove_entry_by_extid }
overwrite_remove ==
    /\ dbPc = "remove"
    /\ staleLeft # {}
    /\ \E id \in staleLeft :
          /\ txLog' = Append(txLog, [op |-> "remove", ext_id |-> id])
          /\ staleLeft' = staleLeft \ {id}
    /\ UNCHANGED <<table, dbPc, dbErr, entries, nextEntry, existing, quiet, snapshot, before, wrote>>
    /\ UNCHANGED syncVars
    /\ UNCHANGED <<saltoVars, signalVars, ctVars, authVars, memberVars>>

\* the stale loop is exhausted
overwrite_remove_done ==
    /\ dbPc = "remove"
    /\ staleLeft = {}
    /\ dbPc' = "upsert"
    /\ UNCHANGED <<table, txLog, dbErr, staleLeft, entries, nextEntry, existing, quiet, snapshot, before, wrote>>
    /\ UNCHANGED syncVars
    /\ UNCHANGED <<saltoVars, signalVars, ctVars, authVars, memberVars>>

\* one turn of: for entry in entries { upsert_staging_entry }
overwrite_upsert ==
    /\ dbPc = "upsert"
    /\ nextEntry <= Len(entries)
    /\ txLog' = Append(txLog, [op |-> "upsert", entry |-> entries[nextEntry]])
    /\ nextEntry' = nextEntry + 1
    /\ UNCHANGED <<table, dbPc, dbErr, staleLeft, entries, existing, quiet, snapshot, before, wrote>>
    /\ UNCHANGED syncVars
    /\ UNCHANGED <<saltoVars, signalVars, ctVars, authVars, memberVars>>

\* the upsert loop is exhausted
overwrite_upsert_done ==
    /\ dbPc = "upsert"
    /\ nextEntry > Len(entries)
    /\ dbPc' = "commit"
    /\ UNCHANGED <<table, txLog, dbErr, staleLeft, entries, nextEntry, existing, quiet, snapshot, before, wrote>>
    /\ UNCHANGED syncVars
    /\ UNCHANGED <<saltoVars, signalVars, ctVars, authVars, memberVars>>

\* tx.commit() succeeds
overwrite_commit ==
    /\ dbPc = "commit"
    /\ table' = commit(table, txLog)
    /\ txLog' = <<>>
    /\ dbPc' = "ok"
    /\ quiet' = (snapshot = <<>> \/ quiet)
    /\ before' = table
    /\ wrote' = TRUE
    /\ UNCHANGED <<dbErr, staleLeft, entries, nextEntry, existing, snapshot>>
    /\ UNCHANGED syncVars
    /\ UNCHANGED <<saltoVars, signalVars, ctVars, authVars, memberVars>>

\* the DBError a failing step maps to
DBErrorAt(p) ==
    CASE p = "begin"  -> "StartTransaction"
      [] p = "read"   -> "GetEntries"
      [] p = "remove" -> "RemoveEntry"
      [] p = "upsert" -> "UpsertStaging"
      [] p = "commit" -> "CommitTransaction"

\* any awaited statement returns Err: `?` leaves the function, tx is dropped
overwrite_fail ==
    /\ dbPc \in {"begin", "read", "commit"}
       \/ (dbPc = "remove" /\ staleLeft # {})
       \/ (dbPc = "upsert" /\ nextEntry <= Len(entries))
    /\ dbErr' = DBErrorAt(dbPc)
    /\ table' = rollback(table, txLog)
    /\ txLog' = <<>>
    /\ dbPc' = "err"
    /\ quiet' = FALSE
    /\ UNCHANGED <<staleLeft, entries, nextEntry, existing, snapshot, before, wrote>>
    /\ UNCHANGED syncVars
    /\ UNCHANGED <<saltoVars, signalVars, ctVars, authVars, memberVars>>

----------------------------------------------------------------------------
(* Salto's own consumer of the staging table                               *)

\* rows the open transaction has written are locked until it ends
LockedIds ==
    {IF txLog[i].op = "remove" THEN txLog[i].ext_id ELSE txLog[i].entry.ext_user_id :
        i \in DOMAIN txLog}

\* Salto takes a row marked to be processed and records the outcome
vendor_takes_row(code, message) ==
    /\ \E r \in table :
          /\ r.ToBeProcessedBySalto = 1
          /\ r.ExtID \notin LockedIds
          /\ table' = (table \ {r}) \cup
                {[r EXCEPT !.ToBeProcessedBySalto = 0,
                           !.ProcessedDateTime = "T",
                           !.ErrorCode = code,
                           !.ErrorMessage = message]}
    /\ quiet' = FALSE
    /\ UNCHANGED <<txLog, dbPc, dbErr, staleLeft, entries, nextEntry, existing, snapshot, before, wrote>>
    /\ UNCHANGED syncVars
    /\ UNCHANGED <<saltoVars, signalVars, ctVars, authVars, memberVars>>

\* Salto applies a row
vendor_process == vendor_takes_row(NULL, NULL)

\* Salto rejects a row and records why
vendor_process_error == vendor_takes_row("E", "M")

----------------------------------------------------------------------------

\* no call of get_ext_ids_by_transponder has been made
InitSaltoIdle ==
    /\ pages = <<>>
    /\ served = 0
    /\ keys = {}
    /\ rPc = "idle"
    /\ res = EmptyMap
    /\ sErr = "none"
    /\ on_last_page = <<>>
    /\ last_page_full_last_entry = <<>>
    /\ current_future = "none"
    /\ requests = <<>>
    /\ yielded = <<>>
    /\ polls = 0
    /\ calls = 0
    /\ failures = 0
    /\ earlier = <<>>

\* signal_handler is not modelled step by step
InitSignalIdle ==
    /\ sigPc = "idle"
    /\ sigResult = "none"
    /\ trigger = "none"

\* get_relevant_bookings is not modelled booking by booking
InitCtIdle ==
    /\ ctIn = <<>>
    /\ cPc = "idle"
    /\ cTimes = <<>>
    /\ cPermitted = <<>>
    /\ cOut = <<>>

\* salto_login is not modelled
InitAuthIdle ==
    /\ password = <<>>
    /\ aPc = "idle"
    /\ raw_bytes = <<>>
    /\ complete_hash = <<>>

\* get_transponder_ids_in_group is not modelled request by request
InitMembersIdle ==
    /\ mServer = <<>>
    /\ mPage = 0
    /\ mRes = <<>>
    /\ mPc = "idle"
    /\ mOut = <<>>
    /\ mRequests = <<>>

InitDb ==
    /\ table = {}
    /\ txLog = <<>>
    /\ dbPc = "idle"
    /\ dbErr = "none"
    /\ staleLeft = {}
    /\ entries = <<>>
    /\ nextEntry = 1
    /\ existing = {}
    /\ quiet = FALSE
    /\ snapshot = <<>>
    /\ before = {}
    /\ wrote = FALSE

\* the sync task has not run yet; the reconciler is exercised on its own
InitSyncIdle ==
    /\ pc = "start"
    /\ now = 0
    /\ cfg = [prehold_time |-> 0, posthold_time |-> 0, sync_frequency |-> 1]
    /\ nextTick = first_deadline(0, cfg.sync_frequency)
    /\ shutdown = FALSE
    /\ signalledInFlight = FALSE
    /\ bookings = <<>>
    /\ convNow = 0
    /\ zoneLists = EmptyMap
    /\ extIds = EmptyMap
    /\ stagesOk = {}
    /\ cycleErr = "none"

overwrite_steps ==
    \/ overwrite_begin
    \/ overwrite_read
    \/ overwrite_remove
    \/ overwrite_remove_done
    \/ overwrite_upsert
    \/ overwrite_upsert_done
    \/ overwrite_commit
    \/ overwrite_fail

NextDb ==
    \/ call_overwrite
    \/ call_overwrite_again
    \/ overwrite_steps
    \/ vendor_process
    \/ vendor_process_error

\* the reconciler exercised on its own, the sync task not started
InitReconciler ==
    InitDb /\ InitMembersIdle /\ InitSyncIdle /\ InitSaltoIdle /\ InitSignalIdle /\ InitCtIdle /\ InitAuthIdle

SpecDb == InitReconciler /\ [][NextDb]_vars

----------------------------------------------------------------------------
(* Part 2 - the access encoder of src/src/pull_bookings.rs                 *)

MaxBookings == 2
MaxTime == 3
MaxNow == 3
MaxUsers == 2

Transponders == {100, 200}

\* config.rooms: resources 1 and 3 are mapped to zones, resource 2 is not
\* configured
rooms == <<[ct_id |-> 1, salto_ext_id |-> "Z1"], [ct_id |-> 3, salto_ext_id |-> "Z2"]>>
ResourceIds == {1, 2, 3}

None == <<>>
Some(x) == <<x>>

\* a lookup that falls back to the first room of the configuration
room_ext_id_or_first(resource_id) ==
    LET hits == {i \in DOMAIN rooms : rooms[i].ct_id = resource_id}
    IN  IF hits = {} THEN Some(rooms[1].salto_ext_id)
        ELSE Some(rooms[CHOOSE i \in hits : \A j \in hits : i <= j].salto_ext_id)

\* Config::room_ext_id: the first room whose ct_id matches
room_ext_id(resource_id) ==
    LET hits == {i \in DOMAIN rooms : rooms[i].ct_id = resource_id}
    IN  IF hits = {} THEN None
        ELSE Some(rooms[CHOOSE i \in hits : \A j \in hits : i <= j].salto_ext_id)

\* get_transponder_ids_in_groups: the member lists of the granted groups,
\* concatenated in the order of the groups (flatten_ok)
RECURSIVE get_transponder_ids_in_groups(_)
get_transponder_ids_in_groups(members) ==
    IF members = <<>> THEN <<>>
    ELSE Head(members) \o get_transponder_ids_in_groups(Tail(members))

\* get_permitted_transponders: the group members, then the creator's
\* transponder if the creator has one
get_permitted_transponders(creator, members) ==
    LET transponders == get_transponder_ids_in_groups(members)
    IN  IF creator # None THEN Append(transponders, creator[1]) ELSE transponders

\* what CT answers for the granted groups of a booking (one member list per
\* group) and for its creator
GroupMemberLists == {<<>>, <<<<200>>>>, <<<<100>>>>, <<<<100>>, <<100>>>>}
CreatorTransponders == {None, Some(100)}

\* Vec<i64> as get_permitted_transponders builds it
PermittedLists ==
    {get_permitted_transponders(c, g) : c \in CreatorTransponders, g \in GroupMemberLists}

\* resolved bookings; a booking lasts at most one time unit
Booking ==
    {b \in [resource_id : ResourceIds, start_time : 0..MaxTime, end_time : 0..MaxTime,
            permitted_transponders : PermittedLists] :
        b.start_time <= b.end_time /\ b.end_time <= b.start_time + 1}

BookingLists == SeqsUpTo(Booking, MaxBookings)

\* the exclusion test kept when only the expiry half is checked
ignores_expired_only(c, t, b) == t > b.end_time + c.posthold_time

\* the exclusion test kept when only the lookahead half is checked
ignores_future_only(c, t, b) ==
    t < b.start_time - c.prehold_time - c.sync_frequency

\* the exclusion test with the bounds themselves excluded
ignores_at_bounds(c, t, b) ==
    \/ t >= b.end_time + c.posthold_time
    \/ t <= b.start_time - c.prehold_time - c.sync_frequency

\* the `continue` of the booking loop: posthold already over, or prehold
\* starts more than sync_frequency from now
booking_is_ignored(c, t, b) ==
    \/ t > b.end_time + c.posthold_time
    \/ t < b.start_time - c.prehold_time - c.sync_frequency

\* the entry update that keeps only the newest record
push_zone_replacing(m, transponder, zone) ==
    [t \in DOMAIN m \cup {transponder} |-> IF t = transponder THEN <<zone>> ELSE m[t]]

\* entry(transponder).and_modify(push ',' + zone).or_insert(zone)
push_zone(m, transponder, zone) ==
    IF transponder \in DOMAIN m
    THEN [m EXCEPT ![transponder] = Append(@, zone)]
    ELSE [t \in DOMAIN m \cup {transponder} |->
             IF t = transponder THEN <<zone>> ELSE m[t]]

\* for transponder in booking.permitted_transponders { ... }
RECURSIVE push_zone_for_all(_, _, _)
push_zone_for_all(m, permitted, zone) ==
    IF permitted = <<>> THEN m
    ELSE push_zone_for_all(push_zone(m, Head(permitted), zone), Tail(permitted), zone)

\* one turn of the booking loop of convert_to_staging_entries
add_booking(m, c, t, b) ==
    IF booking_is_ignored(c, t, b) THEN m
    ELSE IF room_ext_id(b.resource_id) = None THEN m
    ELSE push_zone_for_all(m, b.permitted_transponders,
             salto_single_permitted_zone_format(
                 room_ext_id(b.resource_id)[1], timetable_id, b.start_time, b.end_time))

\* the booking loop of convert_to_staging_entries
RECURSIVE ext_zone_id_list_by_transponder(_, _, _, _)
ext_zone_id_list_by_transponder(m, c, t, bs) ==
    IF bs = <<>> THEN m
    ELSE ext_zone_id_list_by_transponder(add_booking(m, c, t, Head(bs)), c, t, Tail(bs))

\* items of SaltoUserStream: a parsed user or a DeserializeDirect error
SaltoUser == [ok : {TRUE}, ext_id : ExtIds, transponder_id : Transponders]
StreamItems == SaltoUser \cup {[ok |-> FALSE]}
Directories == SeqsUpTo(StreamItems, MaxUsers)

\* the loop with an insert in place of entry().and_modify(): every parsed
\* user adds its transponder as a key
RECURSIVE get_ext_ids_inserting(_, _)
get_ext_ids_inserting(map, users) ==
    IF users = <<>> THEN map
    ELSE LET u == Head(users)
         IN  get_ext_ids_inserting(
                 IF u.ok
                 THEN [t \in DOMAIN map \cup {u.transponder_id} |->
                          IF t = u.transponder_id THEN Some(u.ext_id) ELSE map[t]]
                 ELSE map,
                 Tail(users))

\* the while-let loop of get_ext_ids_by_transponder over a stream that ends
RECURSIVE get_ext_ids_by_transponder(_, _)
get_ext_ids_by_transponder(map, users) ==
    IF users = <<>> THEN map
    ELSE LET u == Head(users)
         IN  get_ext_ids_by_transponder(
                 IF u.ok /\ u.transponder_id \in DOMAIN map
                 THEN [map EXCEPT ![u.transponder_id] = Some(u.ext_id)]
                 ELSE map,
                 Tail(users))

\* the orders in which a HashMap may hand out the keys in S
RECURSIVE KeyOrders(_)
KeyOrders(S) ==
    IF S = {} THEN {<<>>}
    ELSE UNION {{<<k>> \o q : q \in KeyOrders(S \ {k})} : k \in S}

\* a map in place of the filter_map: a transponder without external id
\* gets an entry with no user
RECURSIVE staging_entries_keeping_unknown(_, _, _)
staging_entries_keeping_unknown(order, ext_ids, m) ==
    IF order = <<>> THEN <<>>
    ELSE LET t == Head(order)
             rest == staging_entries_keeping_unknown(Tail(order), ext_ids, m)
         IN  <<[ext_user_id |-> IF ext_ids[t] = None THEN NULL ELSE ext_ids[t][1],
                ext_zone_id_list |-> m[t]]>> \o rest

\* the filter_map over person_ext_ids_by_transponder, keys taken in `order`
RECURSIVE staging_entries(_, _, _)
staging_entries(order, ext_ids, m) ==
    IF order = <<>> THEN <<>>
    ELSE LET t == Head(order)
             rest == staging_entries(Tail(order), ext_ids, m)
         IN  IF ext_ids[t] = None THEN rest
             ELSE <<[ext_user_id |-> ext_ids[t][1], ext_zone_id_list |-> m[t]]>> \o rest

----------------------------------------------------------------------------
(* sync_once and keep_bookings_up_to_date, one action per resumption       *)

\* what CT is seen to return while the whole loop runs: two bookings of the
\* mapped room, in any selection and order
CtBookings ==
    {[resource_id |-> 1, start_time |-> 0, end_time |-> 1,
      permitted_transponders |-> <<100>>],
     [resource_id |-> 1, start_time |-> 1, end_time |-> 2,
      permitted_transponders |-> <<200, 100>>]}
CtBookingLists ==
    {bs \in SeqsUpTo(CtBookings, MaxBookings) :
        \A i \in DOMAIN bs, j \in DOMAIN bs : bs[i] = bs[j] => i = j}

\* the clock advances while the task waits for CT or for the next tick; time
\* spent in the later awaits of a cycle is not read before the select
time_passes ==
    /\ pc \in {"get_relevant_bookings", "select"}
    /\ now < MaxNow
    /\ now' = now + 1
    /\ UNCHANGED <<pc, cfg, nextTick, shutdown, signalledInFlight, bookings, convNow, zoneLists, extIds, stagesOk,
                   cycleErr>>
    /\ UNCHANGED dbVars
    /\ UNCHANGED <<saltoVars, signalVars, ctVars, authVars, memberVars>>

\* signal_handler: a signal arrives (or a listener cannot be installed) and
\* InShutdown::Yes is sent
signal_handler ==
    /\ ~shutdown
    /\ shutdown' = TRUE
    /\ signalledInFlight' = (pc \in {"get_relevant_bookings", "get_ext_ids", "overwrite"})
    /\ UNCHANGED <<pc, now, cfg, nextTick, bookings, convNow, zoneLists, extIds, stagesOk,
                   cycleErr>>
    /\ UNCHANGED dbVars
    /\ UNCHANGED <<saltoVars, signalVars, ctVars, authVars, memberVars>>

\* a loop that does not wait for the interval
tick_not_awaited == TRUE

\* interval.tick() completes: the deadline of the next tick has been reached
tick_is_due == now >= nextTick

\* the interval's first tick completes at once; the loop calls sync_once,
\* which sends the bookings request
first_tick ==
    /\ pc = "start"
    /\ tick_is_due
    /\ nextTick' = nextTick + cfg.sync_frequency
    /\ pc' = "get_relevant_bookings"
    /\ stagesOk' = {}
    /\ wrote' = FALSE
    /\ UNCHANGED <<now, cfg, shutdown, signalledInFlight, bookings, convNow, zoneLists, extIds, cycleErr>>
    /\ UNCHANGED <<table, txLog, dbPc, dbErr, staleLeft, entries, nextEntry, existing, quiet,
                   snapshot, before>>
    /\ UNCHANGED <<saltoVars, signalVars, ctVars, authVars, memberVars>>

\* get_relevant_bookings returned Ok: convert_to_staging_entries reads the
\* clock, folds the bookings and asks Salto for the user directory
get_relevant_bookings_ok ==
    /\ pc = "get_relevant_bookings"
    /\ \E bs \in CtBookingLists :
          /\ bookings' = bs
          /\ zoneLists' = ext_zone_id_list_by_transponder(EmptyMap, cfg, now, bs)
    /\ convNow' = now
    /\ pc' = "get_ext_ids"
    /\ stagesOk' = {"bookings"}
    /\ cycleErr' = "none"
    /\ UNCHANGED <<now, cfg, nextTick, shutdown, signalledInFlight, extIds>>
    /\ UNCHANGED dbVars
    /\ UNCHANGED <<saltoVars, signalVars, ctVars, authVars, memberVars>>

\* variants of the error arm: one that returns from the task, one that goes on
\* with the next stage of the cycle
stops_on_error == "returned"
continues_after_error == "get_ext_ids"

\* where the task waits after sync_once returned Err: the loop logs the
\* error and goes on to the select
after_stage_error == "select"

\* get_raw_bookings or the resolution of any one booking returned Err
get_relevant_bookings_err ==
    /\ pc = "get_relevant_bookings"
    /\ cycleErr' = "CT"
    /\ pc' = after_stage_error
    /\ UNCHANGED <<now, cfg, nextTick, shutdown, signalledInFlight, bookings, convNow, zoneLists, extIds, stagesOk>>
    /\ UNCHANGED dbVars
    /\ UNCHANGED <<saltoVars, signalVars, ctVars, authVars, memberVars>>

\* the directory enumeration ended: staging entries are built and
\* overwrite_staging_table_with is entered
get_ext_ids_ok ==
    /\ pc = "get_ext_ids"
    /\ \E users \in Directories, order \in KeyOrders(DOMAIN zoneLists) :
          /\ extIds' = get_ext_ids_by_transponder([t \in DOMAIN zoneLists |-> None], users)
          /\ entries' = staging_entries(order, extIds', zoneLists)
    /\ pc' = "overwrite"
    /\ stagesOk' = stagesOk \cup {"ext_ids"}
    /\ dbPc' = "begin"
    /\ dbErr' = "none"
    /\ txLog' = <<>>
    /\ staleLeft' = {}
    /\ existing' = {}
    /\ nextEntry' = 1
    /\ quiet' = FALSE
    /\ snapshot' = <<>>
    /\ before' = {}
    /\ UNCHANGED <<table, wrote, now, cfg, nextTick, shutdown, signalledInFlight, bookings, convNow, zoneLists,
                   cycleErr>>
    /\ UNCHANGED <<saltoVars, signalVars, ctVars, authVars, memberVars>>

\* the locals of sync_once are dropped when it returns
DropCycleLocals ==
    /\ bookings' = <<>>
    /\ zoneLists' = EmptyMap
    /\ extIds' = EmptyMap
    /\ convNow' = 0

\* a page fetch of the directory enumeration returned Err
get_ext_ids_err ==
    /\ pc = "get_ext_ids"
    /\ cycleErr' = "Salto"
    /\ pc' = after_stage_error
    /\ DropCycleLocals
    /\ UNCHANGED <<now, cfg, nextTick, shutdown, signalledInFlight, stagesOk>>
    /\ UNCHANGED dbVars
    /\ UNCHANGED <<saltoVars, signalVars, ctVars, authVars, memberVars>>

\* overwrite_staging_table_with returned; sync_once returns its result
sync_once_return ==
    /\ pc = "overwrite"
    /\ dbPc \in {"ok", "err"}
    /\ cycleErr' = IF dbPc = "ok" THEN "none" ELSE "DB"
    /\ pc' = IF dbPc = "ok" THEN "select" ELSE after_stage_error
    /\ dbPc' = "idle"
    /\ dbErr' = "none"
    /\ entries' = <<>>
    /\ existing' = {}
    /\ nextEntry' = 1
    /\ before' = {}
    /\ quiet' = FALSE
    /\ DropCycleLocals
    /\ UNCHANGED <<now, cfg, nextTick, shutdown, signalledInFlight, stagesOk>>
    /\ UNCHANGED <<table, txLog, staleLeft, snapshot, wrote>>
    /\ UNCHANGED <<saltoVars, signalVars, ctVars, authVars, memberVars>>

\* select!: the interval ticks, the loop body runs again
select_tick ==
    /\ pc = "select"
    /\ tick_is_due
    /\ nextTick' = nextTick + cfg.sync_frequency
    /\ pc' = "get_relevant_bookings"
    /\ stagesOk' = {}
    /\ wrote' = FALSE
    /\ UNCHANGED <<now, cfg, shutdown, signalledInFlight, bookings, convNow, zoneLists, extIds, cycleErr>>
    /\ UNCHANGED <<table, txLog, dbPc, dbErr, staleLeft, entries, nextEntry, existing, quiet,
                   snapshot, before>>
    /\ UNCHANGED <<saltoVars, signalVars, ctVars, authVars, memberVars>>

\* a loop that goes on waiting when the flag has changed
changed_ignored == "select"

\* the watcher.changed() arm of the select in keep_bookings_up_to_date
on_changed == "returned"

\* select!: watcher.changed() resolves, the task returns
select_shutdown ==
    /\ pc = "select"
    /\ shutdown
    /\ pc' = on_changed
    /\ UNCHANGED <<now, cfg, nextTick, shutdown, signalledInFlight, bookings, convNow, zoneLists, extIds, stagesOk,
                   cycleErr>>
    /\ UNCHANGED dbVars
    /\ UNCHANGED <<saltoVars, signalVars, ctVars, authVars, memberVars>>

InitSync ==
    /\ pc = "start"
    /\ now = 0
    /\ cfg \in Configs
    /\ nextTick = first_deadline(0, cfg.sync_frequency)
    /\ shutdown = FALSE
    /\ signalledInFlight = FALSE
    /\ bookings = <<>>
    /\ convNow = 0
    /\ zoneLists = EmptyMap
    /\ extIds = EmptyMap
    /\ stagesOk = {}
    /\ cycleErr = "none"

Init == InitDb /\ InitMembersIdle /\ InitSync /\ InitSaltoIdle /\ InitSignalIdle /\ InitCtIdle /\ InitAuthIdle

Next ==
    \/ time_passes
    \/ signal_handler
    \/ first_tick
    \/ get_relevant_bookings_ok
    \/ get_relevant_bookings_err
    \/ get_ext_ids_ok
    \/ get_ext_ids_err
    \/ overwrite_steps
    \/ sync_once_return
    \/ select_tick
    \/ select_shutdown
    \/ vendor_process

Spec == Init /\ [][Next]_vars

----------------------------------------------------------------------------
(* convert_to_staging_entries on its own, over every list of bookings      *)

\* the booking loop of convert_to_staging_entries, `bookings` kept as its input
convert_to_staging_entries ==
    /\ pc = "convert"
    /\ zoneLists' = ext_zone_id_list_by_transponder(EmptyMap, cfg, now, bookings)
    /\ convNow' = now
    /\ pc' = "get_ext_ids"
    /\ stagesOk' = {"bookings"}
    /\ UNCHANGED <<now, cfg, nextTick, shutdown, signalledInFlight, bookings, extIds, cycleErr>>
    /\ UNCHANGED dbVars
    /\ UNCHANGED <<saltoVars, signalVars, ctVars, authVars, memberVars>>

InitConvert ==
    /\ InitDb
    /\ InitMembersIdle
    /\ pc = "convert"
    /\ now \in 0..MaxNow
    /\ cfg \in Configs
    /\ nextTick = first_deadline(0, cfg.sync_frequency)
    /\ shutdown = FALSE
    /\ signalledInFlight = FALSE
    /\ bookings \in BookingLists
    /\ convNow = 0
    /\ zoneLists = EmptyMap
    /\ extIds = EmptyMap
    /\ stagesOk = {}
    /\ cycleErr = "none"
    /\ InitSaltoIdle
    /\ InitSignalIdle
    /\ InitCtIdle
    /\ InitAuthIdle

NextConvert ==
    \/ convert_to_staging_entries
    \/ get_ext_ids_ok
    \/ get_ext_ids_err

SpecConvert == InitConvert /\ [][NextConvert]_vars

----------------------------------------------------------------------------
(* Properties of the reconciler                                            *)

DesiredIds(es) == {es[i].ext_user_id : i \in DOMAIN es}

\* the entry of es that is upserted last for external id `id`
LastEntryFor(es, id) ==
    es[CHOOSE i \in DOMAIN es :
          /\ es[i].ext_user_id = id
          /\ \A j \in DOMAIN es : es[j].ext_user_id = id => j <= i]

BookkeepingReset(r) ==
    /\ r.ToBeProcessedBySalto = 1
    /\ r.ProcessedDateTime = NULL
    /\ r.ErrorCode = NULL
    /\ r.ErrorMessage = NULL

\* a step of overwrite_staging_table_with (not of Salto)
ReconcilerStep == <<dbPc, txLog, staleLeft, nextEntry, entries, snapshot>>' #
                  <<dbPc, txLog, staleLeft, nextEntry, entries, snapshot>>

CommitStep == dbPc = "commit" /\ dbPc' = "ok"

C3_StaleRowsBlankedAndReset ==
    [][CommitStep =>
          \A r \in table' :
              r.ExtID \in existing_outdated_entries(
                              get_existing_entries_by_extid(table), entries)
                  => r.ExtZoneIDList = <<>> /\ BookkeepingReset(r)]_vars

\* C4: no step of any run, committed or failed, removes a row: the set of
\* external ids in the table never shrinks.
C4_RowsNeverDeleted ==
    [][get_existing_entries_by_extid(table) \subseteq
          get_existing_entries_by_extid(table')]_vars

\* a committed run that found a stale row, which is still there, blanked
C4_Witness ==
    /\ dbPc = "ok"
    /\ \E id \in existing_outdated_entries(existing, entries) :
          \E r \in table : r.ExtID = id /\ r.ExtZoneIDList = <<>>
    /\ \E r \in table : r.ExtZoneIDList # <<>>

\* C5: a run that fails at any step returns a DBError and leaves the table
\* as it was, and the only reconciler step that changes the table at all is
\* the successful commit.
C5_AllOrNothing ==
    [][/\ (dbPc # "err" /\ dbPc' = "err") => (dbErr' # "none" /\ table' = table)
       /\ (ReconcilerStep /\ table' # table) => CommitStep]_vars

\* a run that failed in the upsert loop after a remove and an upsert had
\* already been executed inside the transaction
C5_Witness ==
    /\ dbPc = "err"
    /\ dbErr = "UpsertStaging"
    /\ nextEntry = 2
    /\ existing_outdated_entries(existing, entries) # {}
    /\ staleLeft = {}
    /\ \E r \in table : r.ExtZoneIDList # <<>>

C9_OneRowPerExtId ==
    \A r1 \in table, r2 \in table : r1.ExtID = r2.ExtID => r1 = r2

\* a committed run whose desired list named an id that already had a row
\* with a different zone list
C9_Witness ==
    /\ dbPc = "ok"
    /\ \E i \in DOMAIN entries :
          /\ entries[i].ext_user_id \in existing
          /\ entries[i].ext_zone_id_list # <<>>
    /\ Cardinality(table) = 2

----------------------------------------------------------------------------
(* Properties of the encoder and of the sync loop                          *)

Range(q) == {q[i] : i \in DOMAIN q}

RemoveAt(q, i) == SubSeq(q, 1, i - 1) \o SubSeq(q, i + 1, Len(q))

\* the grant record convert_to_staging_entries would write for booking b
RecordOf(b) ==
    salto_single_permitted_zone_format(
        room_ext_id(b.resource_id)[1], timetable_id, b.start_time, b.end_time)

Expired(c, t, b) == b.end_time + c.posthold_time < t
NotYetRelevant(c, t, b) == b.start_time - c.prehold_time - c.sync_frequency > t

\* C10: a booking with end_time + posthold_time < now, and a booking with
\* start_time - prehold_time - sync_frequency > now, contributes no grant
\* record to any transponder: its record is in no zone list, and the map is
\* the one the other bookings alone produce.
C10_WindowExclusion ==
    pc = "get_ext_ids" =>
        \A i \in DOMAIN bookings :
            (Expired(cfg, convNow, bookings[i]) \/ NotYetRelevant(cfg, convNow, bookings[i]))
            => /\ room_ext_id(bookings[i].resource_id) # None =>
                      \A t \in DOMAIN zoneLists :
                          RecordOf(bookings[i]) \notin Range(zoneLists[t])
               /\ zoneLists = ext_zone_id_list_by_transponder(
                                  EmptyMap, cfg, convNow, RemoveAt(bookings, i))

\* the loop has run over an expired booking and a booking still beyond the
\* lookahead, both of the mapped room with permitted transponders
C10_Witness ==
    /\ pc = "get_ext_ids"
    /\ Len(bookings) = 2
    /\ \E i \in DOMAIN bookings, j \in DOMAIN bookings :
          /\ Expired(cfg, convNow, bookings[i])
          /\ NotYetRelevant(cfg, convNow, bookings[j])
          /\ bookings[i].permitted_transponders # <<>>
          /\ bookings[j].permitted_transponders # <<>>
          /\ bookings[i].resource_id = 1
          /\ bookings[j].resource_id = 1

\* a step of the sync task itself (not of Salto, the clock or the signal)
TaskStep == ReconcilerStep \/ pc' # pc

\* a step in which a stage of the running cycle ends with an error
CycleFailed ==
    /\ pc \in {"get_relevant_bookings", "get_ext_ids", "overwrite"}
    /\ pc' # pc
    /\ cycleErr' # "none"

\* C1: when a cycle whose conversion read the clock after
\* b.end_time + posthold_time has committed, no row of the staging table
\* contains b's grant record, and the row of an external id that belongs to
\* no transponder with a surviving booking has an empty zone list.
C1_RevocationAfterSuccessfulCycle ==
    (pc = "overwrite" /\ dbPc = "ok") =>
        /\ \A b \in CtBookings :
              (Expired(cfg, convNow, b) /\ room_ext_id(b.resource_id) # None) =>
                  \A r \in table : RecordOf(b) \notin Range(r.ExtZoneIDList)
        /\ \A r \in table :
              (\A t \in DOMAIN zoneLists : extIds[t] # Some(r.ExtID)) =>
                  r.ExtZoneIDList = <<>>

\* a cycle has committed over a row that held the record of a booking that
\* has expired since; one such row is now empty, another still grants a
\* surviving booking
C1_Witness ==
    /\ pc = "overwrite"
    /\ dbPc = "ok"
    /\ \E b \in CtBookings, r \in before, r2 \in table :
          /\ Expired(cfg, convNow, b)
          /\ RecordOf(b) \in Range(r.ExtZoneIDList)
          /\ r2.ExtID = r.ExtID
          /\ r2.ExtZoneIDList # <<>>
    /\ \E r \in before, r2 \in table :
          /\ r.ExtZoneIDList # <<>>
          /\ r2.ExtID = r.ExtID
          /\ r2.ExtZoneIDList = <<>>

\* C6: the sync task changes the staging table only in the commit of a cycle
\* in which the bookings stage and the external-id stage both returned Ok,
\* and a cycle that ends with an error at any stage has committed nothing.
C6_FailedCycleLeavesTable ==
    [][/\ (TaskStep /\ table' # table) =>
              (pc = "overwrite" /\ CommitStep /\ stagesOk = {"bookings", "ext_ids"})
       /\ pc' = "overwrite" => stagesOk' = {"bookings", "ext_ids"}
       /\ CycleFailed => (~wrote' /\ table' = table)]_vars

\* a cycle failed at the commit, after its removes and upserts had been
\* executed, over a table that holds grants
C6_Witness ==
    /\ pc = "overwrite"
    /\ dbPc = "err"
    /\ dbErr = "CommitTransaction"
    /\ entries # <<>>
    /\ existing_outdated_entries(existing, entries) # {}
    /\ \E r \in table : r.ExtZoneIDList # <<>>

\* C7: a stage that ends with an error takes the task to the select, never
\* out of the loop; the task returns only from the select with the shutdown
\* value sent; the select is left only by returning or by starting another
\* cycle on a tick, and once the tick is due the next cycle can start.
C7_LoopSurvivesFailedCycle ==
    [][/\ CycleFailed => pc' = "select"
       /\ (pc' = "returned" /\ pc # "returned") => (pc = "select" /\ shutdown)
       /\ (pc = "select" /\ pc' # "select") =>
              (pc' = "returned" \/ (pc' = "get_relevant_bookings" /\ now >= nextTick))
       /\ (pc = "select" /\ now >= nextTick) => ENABLED select_tick]_vars

\* a new cycle is running after the previous one failed, with no shutdown
C7_Witness ==
    /\ pc = "get_relevant_bookings"
    /\ cycleErr # "none"
    /\ ~shutdown

\* number of positions of q that hold x
Count(x, q) == Cardinality({i \in DOMAIN q : q[i] = x})

\* a booking the loop of convert_to_staging_entries does not skip
Surviving(c, t, b) == ~booking_is_ignored(c, t, b) /\ room_ext_id(b.resource_id) # None

\* the bookings of the batch that survive, permit transponder t and render
\* to the record rec
Contributors(t, rec) ==
    {j \in DOMAIN bookings :
        /\ Surviving(cfg, convNow, bookings[j])
        /\ t \in Range(bookings[j].permitted_transponders)
        /\ RecordOf(bookings[j]) = rec}

\* C11, as stated: every surviving booking contributes exactly one record to
\* the zone list of each transponder permitted on it, so a transponder's list
\* holds a record as many times as there are bookings that render to it.
C11_OneRecordPerBooking ==
    pc = "get_ext_ids" =>
        \A i \in DOMAIN bookings :
            Surviving(cfg, convNow, bookings[i]) =>
                \A t \in Range(bookings[i].permitted_transponders) :
                    /\ t \in DOMAIN zoneLists
                    /\ Count(RecordOf(bookings[i]), zoneLists[t]) =
                           Cardinality(Contributors(t, RecordOf(bookings[i])))

\* the record of booking b over the window extended by the hold times
ExtendedRecordOf(c, b) ==
    salto_single_permitted_zone_format(
        room_ext_id(b.resource_id)[1], timetable_id,
        b.start_time - c.prehold_time, b.end_time + c.posthold_time)

\* C12, as stated: the record written for a surviving booking and each of its
\* permitted transponders starts at start_time - prehold_time and ends at
\* end_time + posthold_time, rendered in local time, and no zone list holds
\* any other record.
C12_RecordCoversExtendedWindow ==
    pc = "get_ext_ids" =>
        /\ \A i \in DOMAIN bookings :
              Surviving(cfg, convNow, bookings[i]) =>
                  \A t \in Range(bookings[i].permitted_transponders) :
                      /\ t \in DOMAIN zoneLists
                      /\ ExtendedRecordOf(cfg, bookings[i]) \in Range(zoneLists[t])
        /\ \A t \in DOMAIN zoneLists :
              \A rec \in Range(zoneLists[t]) :
                  \E i \in DOMAIN bookings :
                      /\ Surviving(cfg, convNow, bookings[i])
                      /\ rec = ExtendedRecordOf(cfg, bookings[i])

IsPrefix(p, q) == Len(p) <= Len(q) /\ SubSeq(q, 1, Len(p)) = p

\* the records of the surviving bookings of the batch that permit t
GrantedRecords(t) ==
    {RecordOf(bookings[i]) :
        i \in {j \in DOMAIN bookings :
                  /\ Surviving(cfg, convNow, bookings[j])
                  /\ t \in Range(bookings[j].permitted_transponders)}}

----------------------------------------------------------------------------
(* Part 3 - the directory enumeration of src/src/salto.rs                  *)

MaxPages == 2
PageSize == 2
MaxPolls == 2
MaxCalls == 2
MaxFailures == 2

\* the Title strings found in the directory; the last is no integer
Titles == {"100", "200", "x7"}

\* raw records of a page (serde_json::Value)
RawRecords == [ExtId : ExtIds, Title : Titles]

\* as_string.parse::<i64>()
deserialize_transponder_id_from_title(title) ==
    IF title = "100" THEN Some(100)
    ELSE IF title = "200" THEN Some(200)
    ELSE None

\* serde_json::from_value::<SaltoUser>(val).map_err(DeserializeDirect)
from_value(val) ==
    LET id == deserialize_transponder_id_from_title(val.Title)
    IN  IF id = None THEN [ok |-> FALSE]
        ELSE [ok |-> TRUE, ext_id |-> val.ExtId, transponder_id |-> id[1]]

NonEmptyPages == SeqsUpTo(RawRecords, PageSize) \ {<<>>}
DirectoryPages == SeqsUpTo(NonEmptyPages, MaxPages)

\* what the server answers to the next request: the next page, or an empty
\* list once all pages were delivered
next_page == IF served < Len(pages) THEN pages[served + 1] ELSE <<>>

\* where the server starts the page it answers with: a request without
\* startingItem lists from the first record, one with a startingItem goes on
\* behind that record
position_of(starting_item, position) == IF starting_item = None THEN 0 ELSE position

\* a buffer that is not advanced when its first record is yielded
on_last_page_not_advanced(page) == page

\* self.on_last_page after the .next() that yields the first record
on_last_page_after_next(page) == Tail(page)

\* the loop returning when a record cannot be parsed
aborts_on_parse_error == "err"

\* where the loop goes after an Err(DeserializeDirect) item: it logs the
\* record and polls the stream again
on_parse_error == "next"

\* the body of the while-let loop for one yielded item
visit(item) == get_ext_ids_by_transponder(res, <<item>>)

\* a cursor taken from the last record of the page that parses into a user
last_parseable_entry(page) ==
    LET parsed == {i \in DOMAIN page : from_value(page[i]).ok}
    IN  IF parsed = {} THEN page[Len(page)]
        ELSE page[CHOOSE i \in parsed : \A j \in parsed : j <= i]

\* next_page.as_slice().last(), cloned as the raw serde_json::Value
last_entry(page) == page[Len(page)]

\* a stream that asks for the next page while one buffered record is left
one_record_left(page) == Len(page) <= 1

\* self.on_last_page.next() returned None: the buffered page is used up
page_exhausted(page) == page = <<>>

\* the map get_ext_ids_by_transponder starts from, keeping what an earlier
\* call had found
res_keeping_found(transponders, old) ==
    [t \in transponders |-> IF t \in DOMAIN old THEN old[t] ELSE None]

\* transponders.map(|transponder| (*transponder, None)).collect()
res_all_none(transponders, old) == [t \in transponders |-> None]

\* get_ext_ids_by_transponder up to its first users.next().await
get_ext_ids_start ==
    /\ rPc = "start"
    /\ res' = res_all_none(keys, res)
    /\ on_last_page' = <<>>
    /\ last_page_full_last_entry' = None
    /\ current_future' = "none"
    /\ rPc' = "next"
    /\ UNCHANGED <<pages, served, keys, sErr, requests, yielded>>
    /\ calls' = calls + 1
    /\ UNCHANGED <<polls, failures, earlier>>
    /\ UNCHANGED <<dbVars, syncVars, signalVars, ctVars, authVars, memberVars>>

\* poll_next: the buffered page still has a record; it is yielded and the
\* loop body runs
poll_next_buffered ==
    /\ rPc = "next"
    /\ on_last_page # <<>>
    /\ LET item == from_value(Head(on_last_page))
       IN  /\ yielded' = Append(yielded, item)
           /\ res' = visit(item)
    /\ rPc' = IF from_value(Head(on_last_page)).ok THEN "next" ELSE on_parse_error
    /\ on_last_page' = on_last_page_after_next(on_last_page)
    /\ UNCHANGED <<pages, served, keys, sErr, last_page_full_last_entry, current_future,
                   requests>>
    /\ UNCHANGED <<polls, calls, failures, earlier>>
    /\ UNCHANGED <<dbVars, syncVars, signalVars, ctVars, authVars, memberVars>>

\* poll_next: the buffer is empty and no fetch is queued; the next page is
\* requested with the cursor as startingItem
poll_next_request ==
    /\ rPc = "next"
    /\ page_exhausted(on_last_page)
    /\ current_future = "none"
    /\ current_future' = "pending"
    /\ requests' = Append(requests, last_page_full_last_entry)
    /\ served' = position_of(last_page_full_last_entry, served)
    /\ UNCHANGED <<pages, keys, rPc, res, sErr, on_last_page, last_page_full_last_entry,
                   yielded>>
    /\ polls' = 0
    /\ UNCHANGED <<calls, failures, earlier>>
    /\ UNCHANGED <<dbVars, syncVars, signalVars, ctVars, authVars, memberVars>>

\* poll_next: the queued fetch is polled and is not ready; Poll::Pending
poll_next_pending ==
    /\ rPc = "next"
    /\ on_last_page = <<>>
    /\ current_future = "pending"
    /\ polls < MaxPolls
    /\ polls' = polls + 1
    /\ UNCHANGED <<pages, served, keys, rPc, res, sErr, on_last_page, last_page_full_last_entry,
                   current_future, requests, yielded, calls, failures, earlier>>
    /\ UNCHANGED <<dbVars, syncVars, signalVars, ctVars, authVars, memberVars>>

\* poll_next: the fetch resolved with a non-empty page; its last record
\* becomes the cursor and its first record is yielded
page_arrives ==
    /\ rPc = "next"
    /\ current_future = "pending"
    /\ next_page # <<>>
    /\ current_future' = "none"
    /\ served' = served + 1
    /\ last_page_full_last_entry' = Some(last_entry(next_page))
    /\ on_last_page' = on_last_page_after_next(next_page)
    /\ LET item == from_value(Head(next_page))
       IN  /\ yielded' = Append(yielded, item)
           /\ res' = visit(item)
           /\ rPc' = IF item.ok THEN "next" ELSE on_parse_error
    /\ UNCHANGED <<pages, keys, sErr, requests>>
    /\ UNCHANGED <<polls, calls, failures, earlier>>
    /\ UNCHANGED <<dbVars, syncVars, signalVars, ctVars, authVars, memberVars>>

\* poll_next: the fetch resolved with an empty page; the stream ends and
\* get_ext_ids_by_transponder returns Ok(res)
empty_page_arrives ==
    /\ rPc = "next"
    /\ current_future = "pending"
    /\ next_page = <<>>
    /\ current_future' = "none"
    /\ rPc' = "ok"
    /\ UNCHANGED <<pages, served, keys, res, sErr, on_last_page, last_page_full_last_entry,
                   requests, yielded>>
    /\ UNCHANGED <<polls, calls, failures, earlier>>
    /\ UNCHANGED <<dbVars, syncVars, signalVars, ctVars, authVars, memberVars>>

\* a stream that forgets its cursor when a fetch fails
cursor_forgotten(cursor) == None

\* the Err arm of poll_next assigns nothing to last_page_full_last_entry
cursor_after_failure(cursor) == cursor

\* the loop going on to the next item after a failed fetch
skips_fetch_error == "next"

\* what the loop does with an Err item other than DeserializeDirect
on_fetch_error == "err"

\* poll_next: the fetch failed (CannotGetUsers) or its body was no JSON list
\* (DeserializeReqwest); the stream yields the error and
\* get_ext_ids_by_transponder returns it, dropping res
page_fails ==
    /\ rPc = "next"
    /\ current_future = "pending"
    /\ \E e \in {"CannotGetUsers", "DeserializeReqwest"} : sErr' = e
    /\ current_future' = "none"
    /\ rPc' = on_fetch_error
    /\ res' = IF on_fetch_error = "err" THEN EmptyMap ELSE res
    /\ last_page_full_last_entry' = cursor_after_failure(last_page_full_last_entry)
    /\ UNCHANGED <<pages, served, keys, on_last_page, requests, yielded>>
    /\ failures' = failures + 1
    /\ UNCHANGED <<polls, calls, earlier>>
    /\ UNCHANGED <<dbVars, syncVars, signalVars, ctVars, authVars, memberVars>>

InitSalto ==
    /\ pages \in DirectoryPages
    /\ keys \in SUBSET Transponders
    /\ served = 0
    /\ rPc = "start"
    /\ res = EmptyMap
    /\ sErr = "none"
    /\ on_last_page = <<>>
    /\ last_page_full_last_entry = None
    /\ current_future = "none"
    /\ requests = <<>>
    /\ yielded = <<>>
    /\ polls = 0
    /\ calls = 0
    /\ failures = 0
    /\ earlier = <<>>

InitEnumeration ==
    InitDb /\ InitMembersIdle /\ InitSyncIdle /\ InitSalto /\ InitSignalIdle /\ InitCtIdle /\ InitAuthIdle

NextSalto ==
    \/ get_ext_ids_start
    \/ poll_next_buffered
    \/ poll_next_request
    \/ poll_next_pending
    \/ page_arrives
    \/ empty_page_arrives
    \/ page_fails

SpecSalto == InitEnumeration /\ [][NextSalto]_vars

\* the caller (sync_once of a later cycle) calls get_ext_ids_by_transponder
\* again with the same transponders; the old stream was dropped with the
\* call's frame, and the directory may have lost its first page since
call_again ==
    /\ rPc \in {"ok", "err"}
    /\ calls < MaxCalls
    /\ earlier' = <<[ended |-> rPc, res |-> res, cursor |-> last_page_full_last_entry,
                     served |-> served]>>
    /\ pages' \in {pages} \cup (IF pages = <<>> THEN {} ELSE {Tail(pages)})
    /\ rPc' = "start"
    /\ sErr' = "none"
    /\ requests' = <<>>
    /\ yielded' = <<>>
    /\ failures' = 0
    /\ UNCHANGED <<served, keys, res, on_last_page, last_page_full_last_entry, current_future,
                   polls, calls>>
    /\ UNCHANGED <<dbVars, syncVars, signalVars, ctVars, authVars, memberVars>>

\* a consumer that does not stop at an Err item polls the stream again:
\* the buffer is empty and no fetch is queued, so poll_next queues a fetch
\* with the cursor as it is and polls it
poll_after_error ==
    /\ rPc = "err"
    /\ failures < MaxFailures
    /\ page_exhausted(on_last_page)
    /\ current_future = "none"
    /\ current_future' = "pending"
    /\ requests' = Append(requests, last_page_full_last_entry)
    /\ served' = position_of(last_page_full_last_entry, served)
    /\ polls' = 0
    /\ rPc' = "next"
    /\ UNCHANGED <<pages, keys, res, sErr, on_last_page, last_page_full_last_entry, yielded,
                   calls, failures, earlier>>
    /\ UNCHANGED <<dbVars, syncVars, signalVars, ctVars, authVars, memberVars>>

NextStream == NextSalto \/ poll_after_error

\* SaltoUserStream under a consumer that keeps polling after errors
SpecStream == InitEnumeration /\ [][NextStream]_vars

NextSaltoCalls == NextSalto \/ call_again

\* get_ext_ids_by_transponder called once per cycle, cycle after cycle
SpecSaltoCalls == InitEnumeration /\ [][NextSaltoCalls]_vars

\* the loop keeps polling and the server answers every request
SpecSaltoLive == SpecSalto /\ WF_vars(NextSalto)

----------------------------------------------------------------------------
(* Properties of the directory enumeration                                 *)

RECURSIVE Flatten(_)
Flatten(qs) == IF qs = <<>> THEN <<>> ELSE Head(qs) \o Flatten(Tail(qs))

\* every record of the directory, parsed, in page order
DirectoryItems ==
    LET raw == Flatten(pages) IN [i \in DOMAIN raw |-> from_value(raw[i])]

\* the external ids of the parseable directory records that carry t
ExtIdsOf(t) ==
    {DirectoryItems[i].ext_id :
        i \in {j \in DOMAIN DirectoryItems :
                  DirectoryItems[j].ok /\ DirectoryItems[j].transponder_id = t}}

\* C14: when get_ext_ids_by_transponder returns Ok, the keys of the map are
\* exactly the input transponders, a key maps to Some external id iff a
\* parseable directory record carries that transponder id (and then to the
\* id of such a record), and to None otherwise; the map is the fold of the
\* loop body over all directory records.
C14_ResolverContract ==
    rPc = "ok" =>
        /\ DOMAIN res = keys
        /\ \A t \in keys :
              /\ res[t] # None <=> ExtIdsOf(t) # {}
              /\ res[t] # None => res[t][1] \in ExtIdsOf(t)
        /\ res = get_ext_ids_by_transponder([t \in keys |-> None], DirectoryItems)

\* a call for transponder 100 alone returned Ok over two pages that hold a
\* record of transponder 100, a record of transponder 200 and a record whose
\* title is no integer
C14_Witness ==
    /\ rPc = "ok"
    /\ keys = {100}
    /\ Len(pages) = 2
    /\ res[100] # None
    /\ \E i \in DOMAIN DirectoryItems :
          DirectoryItems[i].ok /\ DirectoryItems[i].transponder_id = 200
    /\ \E i \in DOMAIN DirectoryItems : ~DirectoryItems[i].ok

\* C15: over a directory of N non-empty pages followed by an empty page the
\* stream yields the records of the pages, parsed, one item per record and in
\* page order; when it has ended it has yielded all of them and exactly N + 1
\* page requests were issued; and every enumeration ends.
C15_PaginationTerminates ==
    /\ [](/\ IsPrefix(yielded, DirectoryItems)
          /\ Len(requests) <= Len(pages) + 1
          /\ rPc = "ok" => (yielded = DirectoryItems /\ Len(requests) = Len(pages) + 1))
    /\ <>(rPc \in {"ok", "err"})

\* an enumeration of two full pages, one of them with an unparseable
\* record, has ended
C15_Witness ==
    /\ rPc = "ok"
    /\ Len(pages) = MaxPages
    /\ \A i \in DOMAIN pages : Len(pages[i]) = PageSize
    /\ Len(yielded) = MaxPages * PageSize
    /\ \E i \in DOMAIN yielded : ~yielded[i].ok
    /\ Len(requests) = MaxPages + 1

\* a step in which a page fetch fails
FetchFails == current_future = "pending" /\ sErr = "none" /\ sErr' # "none"

\* C16: the first failed page fetch makes get_ext_ids_by_transponder return
\* that error with no map, and after it has returned the error the call
\* issues no further page request.
C16_FetchFailureIsTerminal ==
    [][/\ FetchFails =>
              /\ rPc' = "err"
              /\ sErr' \in {"CannotGetUsers", "DeserializeReqwest"}
              /\ res' = EmptyMap
              /\ requests' = requests
       /\ rPc = "err" => (rPc' = "err" /\ requests' = requests /\ res' = res /\ sErr' = sErr)
       /\ sErr # "none" => rPc = "err"]_vars

\* the fetch of the second page failed after the first page had filled in an
\* external id
C16_Witness ==
    /\ rPc = "err"
    /\ served = 1
    /\ Len(requests) = 2
    /\ \E i \in DOMAIN yielded : yielded[i].ok /\ yielded[i].transponder_id \in keys
    /\ Len(pages) = 2

\* a step in which the stream yields a record that failed to parse
YieldsUnparseable ==
    /\ Len(yielded') = Len(yielded) + 1
    /\ ~yielded'[Len(yielded')].ok

\* C17: a record that fails to parse leaves the map as it is and the loop
\* polling; when the enumeration has ended every record, before or after an
\* unparseable one, was visited, and every parseable record of an input
\* transponder has filled in that transponder's external id.
C17_UnparseableRecordSkipped ==
    /\ [][YieldsUnparseable => (rPc' = "next" /\ res' = res)]_vars
    /\ [](rPc = "ok" =>
             /\ yielded = DirectoryItems
             /\ \A i \in DOMAIN DirectoryItems :
                   (DirectoryItems[i].ok /\ DirectoryItems[i].transponder_id \in keys)
                       => res[DirectoryItems[i].transponder_id] # None)

\* an enumeration has ended in which an unparseable record stood between the
\* records of two input transponders, both of which got their external id
C17_Witness ==
    /\ rPc = "ok"
    /\ keys = Transponders
    /\ \E i \in DOMAIN yielded, j \in DOMAIN yielded, k \in DOMAIN yielded :
          /\ i < j /\ j < k
          /\ yielded[i].ok /\ ~yielded[j].ok /\ yielded[k].ok
          /\ yielded[i].transponder_id # yielded[k].transponder_id
          /\ res[yielded[i].transponder_id] = Some(yielded[i].ext_id)
          /\ res[yielded[k].transponder_id] = Some(yielded[k].ext_id)
    /\ ~yielded[1].ok

-----------------------------------------------------------------------------
(* Part 4: signal_handler (main.rs), step by step, next to the sync task    *)

\* the three listeners signal_handler installs, in the order of the code
Listeners == <<"SIGTERM", "SIGHUP", "SIGINT">>

\* the events the select of signal_handler waits for besides watcher.changed()
SelectEvents == {"SIGTERM", "SIGHUP", "SIGINT", "ctrl_c", "ctrl_c_err"}

\* signal_handler is installing the listener for l
Installing(l) == "install_" \o l

InstallFailed(l) == "install_" \o l \o "_failed"

InstallFailures == {InstallFailed(Listeners[i]) : i \in 1..Len(Listeners)}

\* a sender whose value never reaches the channel
send_ignored(old, value) == old

\* watch::Sender::send_replace: the channel holds the new value
send_replace(old, value) == value

\* shutdown_tx.send_replace(InShutdown::Yes)
send_shutdown ==
    /\ shutdown' = send_replace(shutdown, TRUE)
    /\ signalledInFlight' =
           IF shutdown THEN signalledInFlight
           ELSE pc \in {"get_relevant_bookings", "get_ext_ids", "overwrite"}

\* tokio::signal::unix::signal(kind) returns Ok: on to the next listener, and
\* after the third one to the select
signal_handler_install_ok ==
    /\ \E i \in 1..Len(Listeners) :
           /\ sigPc = Installing(Listeners[i])
           /\ sigPc' = IF i < Len(Listeners) THEN Installing(Listeners[i + 1]) ELSE "select"
    /\ UNCHANGED <<sigResult, trigger>>
    /\ UNCHANGED syncVars
    /\ UNCHANGED dbVars
    /\ UNCHANGED <<saltoVars, ctVars, authVars, memberVars>>

\* tokio::signal::unix::signal(kind) returns Err(e): send, return Err(e)
signal_handler_install_err ==
    /\ \E i \in 1..Len(Listeners) :
           /\ sigPc = Installing(Listeners[i])
           /\ trigger' = InstallFailed(Listeners[i])
    /\ send_shutdown
    /\ sigPc' = "returned"
    /\ sigResult' = "Err"
    /\ UNCHANGED <<pc, now, cfg, nextTick, bookings, convNow, zoneLists, extIds, stagesOk,
                   cycleErr>>
    /\ UNCHANGED dbVars
    /\ UNCHANGED <<saltoVars, ctVars, authVars, memberVars>>

\* one of the signal branches of the select completes: sigterm.recv(),
\* sighup.recv(), sigint.recv(), or ctrl_c() with Ok or with Err
signal_handler_event ==
    /\ sigPc = "select"
    /\ \E e \in SelectEvents : trigger' = e
    /\ send_shutdown
    /\ sigPc' = "returned"
    /\ sigResult' = "Ok"
    /\ UNCHANGED <<pc, now, cfg, nextTick, bookings, convNow, zoneLists, extIds, stagesOk,
                   cycleErr>>
    /\ UNCHANGED dbVars
    /\ UNCHANGED <<saltoVars, ctVars, authVars, memberVars>>

\* the watcher.changed() branch of the select: somebody else has sent
signal_handler_changed ==
    /\ sigPc = "select"
    /\ shutdown
    /\ trigger' = "changed"
    /\ sigPc' = "returned"
    /\ sigResult' = "Ok"
    /\ UNCHANGED syncVars
    /\ UNCHANGED dbVars
    /\ UNCHANGED <<saltoVars, ctVars, authVars, memberVars>>

\* another holder of the sender (main hands tx.clone() to every task) sends
\* InShutdown::Yes
other_task_sends ==
    /\ ~shutdown
    /\ send_shutdown
    /\ UNCHANGED <<pc, now, cfg, nextTick, bookings, convNow, zoneLists, extIds, stagesOk,
                   cycleErr>>
    /\ UNCHANGED dbVars
    /\ UNCHANGED <<saltoVars, signalVars, ctVars, authVars, memberVars>>

\* main has spawned the sync task and signal_handler
InitMain ==
    /\ InitDb
    /\ InitMembersIdle
    /\ InitSync
    /\ cfg = [prehold_time |-> 0, posthold_time |-> 0, sync_frequency |-> 2]
    /\ InitSaltoIdle
    /\ sigPc = Installing(Listeners[1])
    /\ sigResult = "none"
    /\ trigger = "none"
    /\ InitCtIdle
    /\ InitAuthIdle

NextMain ==
    \/ time_passes
    \/ first_tick
    \/ get_relevant_bookings_ok
    \/ get_relevant_bookings_err
    \/ get_ext_ids_ok
    \/ get_ext_ids_err
    \/ overwrite_steps
    \/ sync_once_return
    \/ select_tick
    \/ select_shutdown
    \/ vendor_process
    \/ signal_handler_install_ok
    \/ signal_handler_install_err
    \/ signal_handler_event
    \/ signal_handler_changed
    \/ other_task_sends

SpecMain == InitMain /\ [][NextMain]_vars

\* the steps of the sync task: keep_bookings_up_to_date and what it awaits
sync_task ==
    \/ first_tick
    \/ get_relevant_bookings_ok
    \/ get_relevant_bookings_err
    \/ get_ext_ids_ok
    \/ get_ext_ids_err
    \/ overwrite_steps
    \/ sync_once_return
    \/ select_tick
    \/ select_shutdown

\* the steps signal_handler takes without any signal arriving
signal_task ==
    \/ signal_handler_install_ok
    \/ signal_handler_install_err
    \/ signal_handler_changed

\* the runtime polls every task that is ready, every call a cycle awaits
\* returns, and a select whose watcher.changed() arm is ready again and again
\* takes that arm in the end (the arm to poll first is drawn at random)
SpecMainLive ==
    /\ SpecMain
    /\ WF_vars(sync_task)
    /\ WF_vars(signal_task)
    /\ SF_vars(select_shutdown)

----------------------------------------------------------------------------
(* Properties of the scheduler                                             *)

\* sync_once has been called and has not returned
CycleInFlight == pc \in {"get_relevant_bookings", "get_ext_ids", "overwrite"}

\* a step that calls sync_once
CycleStarts == pc # "get_relevant_bookings" /\ pc' = "get_relevant_bookings"

\* C18: sync_once is called only while no cycle is in flight, at a moment
\* when a tick of the interval is due, and each call consumes one tick; the
\* reconciler runs only inside the one cycle in flight.
C18_CyclesDoNotOverlap ==
    /\ [][CycleStarts =>
              /\ ~CycleInFlight
              /\ pc \in {"start", "select"}
              /\ now >= nextTick
              /\ nextTick' = nextTick + cfg.sync_frequency]_vars
    /\ [](dbPc # "idle" => pc = "overwrite")

\* a second or later cycle is running although, the previous cycle having
\* taken longer than the interval, a further tick is already due
C18_Witness ==
    /\ pc = "overwrite"
    /\ dbPc = "upsert"
    /\ nextTick >= 2 * cfg.sync_frequency
    /\ now >= nextTick
    /\ table # {}


\* C19: a cycle in flight when InShutdown::Yes is sent is not cut short (the
\* task does not return from inside sync_once), and the first step the task
\* takes at the select that follows that cycle is the return, never a further
\* call of sync_once, whether or not a tick is due there.
C19_CancellationObservedAtCheckpoint ==
    [][/\ (shutdown /\ CycleInFlight) => pc' # "returned"
       /\ (pc = "select" /\ signalledInFlight /\ pc' # pc) => pc' = "returned"]_vars


\* C20: whenever signal_handler leaves because of a shutdown trigger (one of
\* the three listeners could not be installed, SIGTERM, SIGHUP, SIGINT or
\* Ctrl-C was received, or listening for Ctrl-C failed), the step that leaves
\* puts InShutdown::Yes in the flag, and the flag stays set; an install
\* failure returns Err straight from the installation, never from the
\* select, and every other way out returns Ok.
C20_EveryTriggerSetsFlag ==
    /\ [][trigger' # trigger =>
              /\ trigger' \in InstallFailures \cup SelectEvents \cup {"changed"}
              /\ sigPc' = "returned"
              /\ trigger' \in InstallFailures \cup SelectEvents => shutdown'
              /\ trigger' \in InstallFailures =>
                     /\ \E i \in 1..Len(Listeners) :
                            /\ sigPc = Installing(Listeners[i])
                            /\ trigger' = InstallFailed(Listeners[i])
                     /\ sigResult' = "Err"
              /\ trigger' \notin InstallFailures => sigPc = "select" /\ sigResult' = "Ok"]_vars
    /\ [](trigger \in InstallFailures \cup SelectEvents => shutdown)
    /\ [](sigPc = "returned" <=> trigger # "none")

\* the third listener could not be installed while a cycle was in flight:
\* signal_handler has returned the error and the flag is set
C20_Witness ==
    /\ trigger = InstallFailed("SIGINT")
    /\ sigResult = "Err"
    /\ sigPc = "returned"
    /\ shutdown
    /\ signalledInFlight

-----------------------------------------------------------------------------
(* Properties of shutdown and start-up                                     *)

\* both handles that main joins have completed
TasksReturned == pc = "returned" /\ sigPc = "returned"

\* C21: once InShutdown::Yes is in the flag, whoever sent it, the sync task
\* and signal_handler both return in the end, so the join in main completes.
C21_ShutdownLiveness == shutdown ~> TasksReturned

\* the flag was set by another task while a cycle was in flight; the sync
\* task has returned and signal_handler has left through watcher.changed()
C21_Witness ==
    /\ TasksReturned
    /\ shutdown
    /\ signalledInFlight
    /\ trigger = "changed"


\* C22: at launch the first interval.tick() is ready at once, and the first
\* step of the task is the call of sync_once, made at the time of launch,
\* before any part of sync_frequency has elapsed; the next tick is then one
\* period away.
C22_FirstCycleImmediately ==
    /\ [](pc = "start" => tick_is_due /\ now = 0)
    /\ [][pc = "start" /\ pc' # pc =>
              /\ pc' = "get_relevant_bookings"
              /\ now' = 0
              /\ nextTick' = now' + cfg.sync_frequency]_vars

\* the first cycle is in flight at the time of launch, the second tick a
\* whole period of two away
C22_Witness ==
    /\ pc = "get_relevant_bookings"
    /\ now = 0
    /\ cfg.sync_frequency = MaxSync
    /\ nextTick = MaxSync
    /\ ~wrote

-----------------------------------------------------------------------------
(* Part 5: the resolution of one booking in get_relevant_bookings (ct.rs)   *)

\* Result<T, CTApiError>
Ok(v) == [ok |-> TRUE, val |-> v]
Err(e) == [ok |-> FALSE, err |-> e]

\* length of a day in time units
DayLen == 3

\* longest booking note, in characters
MaxDescr == 5

\* Time strings are sequences of lexical tokens: a date, the letter T, a time
\* of day, an offset; "x" is a token that fits nowhere.
Dates == {"D0", "D1"}
TimesOfDay == {"h0", "h1", "h2"}
Offsets == {"Z", "+1"}

DateOf(d) == IF d = "D0" THEN 0 ELSE 1
TimeOfDayOf(t) == CASE t = "h0" -> 0 [] t = "h1" -> 1 [] OTHER -> 2
OffsetOf(o) == IF o = "Z" THEN 0 ELSE 1

\* the token classes of an RFC 3339 timestamp, in order
Rfc3339Slots == <<Dates, {"T"}, TimesOfDay, Offsets>>

\* chrono::DateTime::parse_from_rfc3339: the instant in UTC, or the kind of
\* the parse error
parse_from_rfc3339(s) ==
    LET fits == {n \in 0..Len(Rfc3339Slots) :
                    n <= Len(s) /\ \A i \in 1..n : s[i] \in Rfc3339Slots[i]}
        n == CHOOSE m \in fits : \A k \in fits : k <= m
    IN  IF n = Len(Rfc3339Slots)
        THEN IF Len(s) = n
             THEN Ok((DateOf(s[1]) * DayLen + TimeOfDayOf(s[3])) - OffsetOf(s[4]))
             ELSE Err("TooLong")
        ELSE IF n = Len(s) THEN Err("TooShort") ELSE Err("Invalid")

\* chrono::NaiveDate::parse_from_str(s, "%Y-%m-%d")
NaiveDate_parse_from_str(s) ==
    IF s = <<>> THEN Err("TooShort")
    ELSE IF s[1] \notin Dates THEN Err("Invalid")
    ELSE IF Len(s) > 1 THEN Err("TooLong")
    ELSE Ok(DateOf(s[1]))

\* an all-day booking that ends with the first instant of its last day
end_at_midnight(date) == date * DayLen

\* NaiveDateTime::new(naive, 00:00:00) at offset 0
start_of_day(date) == date * DayLen

\* NaiveDateTime::new(naive, 23:59:59) at offset 0: the last instant of the day
end_of_day(date) == date * DayLen + (DayLen - 1)

\* start_time of get_relevant_bookings: the timestamp, or for a date alone
\* the start of that day; any other string is a ParseTime error
parse_start_time(start_date) ==
    LET r == parse_from_rfc3339(start_date)
    IN  IF r.ok THEN r
        ELSE IF r.err = "TooShort"
        THEN LET naive == NaiveDate_parse_from_str(start_date)
             IN  IF naive.ok THEN Ok(start_of_day(naive.val))
                 ELSE Err(<<"ParseTime", naive.err, start_date>>)
        ELSE Err(<<"ParseTime", r.err, start_date>>)

\* end_time of get_relevant_bookings: the same with the end of the day
parse_end_time(end_date) ==
    LET r == parse_from_rfc3339(end_date)
    IN  IF r.ok THEN r
        ELSE IF r.err = "TooShort"
        THEN LET naive == NaiveDate_parse_from_str(end_date)
             IN  IF naive.ok THEN Ok(end_of_day(naive.val))
                 ELSE Err(<<"ParseTime", naive.err, end_date>>)
        ELSE Err(<<"ParseTime", r.err, end_date>>)

\* start_date.split('T').next()
RECURSIVE split_T_first(_)
split_T_first(s) ==
    IF s = <<>> \/ Head(s) = "T" THEN <<>> ELSE <<Head(s)>> \o split_T_first(Tail(s))

\* a lookup that falls back to the calculated time, and then to a time of
\* its own, when the day has no occurrence
get_appointment_or_fallback(data, appointment_id, day) ==
    IF data.calculated_dates # None /\ day \in DOMAIN data.calculated_dates[1]
    THEN Ok(data.calculated_dates[1][day])
    ELSE IF data.calculated # None THEN Ok(data.calculated[1])
         ELSE Ok([start_date |-> <<"D0", "T", "h0", "Z">>,
                  end_date |-> <<"D0", "T", "h1", "Z">>])

\* get_appointment after the response has arrived: the occurrence of the
\* day when the appointment has calculatedDates, else its calculated time
get_appointment(data, appointment_id, day) ==
    IF data.calculated_dates # None
    THEN IF day \in DOMAIN data.calculated_dates[1]
         THEN Ok(data.calculated_dates[1][day])
         ELSE Err(<<"NoCalculatedDateTimeOnDay", appointment_id, day>>)
    ELSE IF data.calculated # None THEN Ok(data.calculated[1])
         ELSE Err(<<"NoCalculatedDateTime", appointment_id>>)

\* a resolver that keeps the time of the resource booking
booking_times_of_resource(x, data) == Ok(<<x.start_date, x.end_date>>)

\* the (start_date, end_date) of get_relevant_bookings
booking_times(x, data) ==
    IF x.appointment # None
    THEN LET r == get_appointment(data, x.appointment[1], split_T_first(x.start_date))
         IN  IF r.ok THEN Ok(<<r.val.start_date, r.val.end_date>>) ELSE r
    ELSE Ok(<<x.start_date, x.end_date>>)

\* Booking notes are sequences of characters.
Digits == {"1", "2"}
DigitOf(c) == IF c = "1" THEN 1 ELSE 2
DescrChars == {" ", "#", "1", "2", "x"}

\* config.ct.group_magic_prefix
group_magic_prefix == <<"#">>

\* str::split_whitespace: the maximal runs of characters other than whitespace
RECURSIVE split_whitespace_from(_, _)
split_whitespace_from(s, word) ==
    IF s = <<>> THEN (IF word = <<>> THEN <<>> ELSE <<word>>)
    ELSE IF Head(s) = " "
    THEN (IF word = <<>> THEN <<>> ELSE <<word>>) \o split_whitespace_from(Tail(s), <<>>)
    ELSE split_whitespace_from(Tail(s), Append(word, Head(s)))

split_whitespace(s) == split_whitespace_from(s, <<>>)

\* str::strip_prefix
strip_prefix(word, prefix) ==
    IF Len(prefix) <= Len(word) /\ SubSeq(word, 1, Len(prefix)) = prefix
    THEN Some(SubSeq(word, Len(prefix) + 1, Len(word)))
    ELSE None

\* str::parse::<i64> on the characters of the notes
RECURSIVE decimal(_, _)
decimal(s, acc) == IF s = <<>> THEN acc ELSE decimal(Tail(s), 10 * acc + DigitOf(Head(s)))

parse_i64(s) ==
    IF s # <<>> /\ \A i \in DOMAIN s : s[i] \in Digits THEN Some(decimal(s, 0)) ELSE None

\* the two filter_map of groups_from_description over the words
RECURSIVE group_ids_of_words(_, _)
group_ids_of_words(words, magic_prefix) ==
    IF words = <<>> THEN <<>>
    ELSE LET stripped == strip_prefix(Head(words), magic_prefix)
             id == IF stripped = None THEN None ELSE parse_i64(stripped[1])
         IN  id \o group_ids_of_words(Tail(words), magic_prefix)

groups_from_description(description, magic_prefix) ==
    group_ids_of_words(split_whitespace(description), magic_prefix)

\* filter_map(|person| person.person_fields.transponder_id) over one page
RECURSIVE transponder_ids_of_page(_)
transponder_ids_of_page(page) ==
    IF page = <<>> THEN <<>> ELSE Head(page) \o transponder_ids_of_page(Tail(page))

\* a loop that stops after the first page of members
first_member_page_only(pgs, page, found) ==
    LET response == IF page <= Len(pgs) THEN pgs[page] ELSE <<>>
    IN  found \o transponder_ids_of_page(response)

\* the loop of get_transponder_ids_in_group from request number `page` on:
\* it ends with the first empty page
RECURSIVE member_pages_from(_, _, _)
member_pages_from(pgs, page, found) ==
    LET response == IF page <= Len(pgs) THEN pgs[page] ELSE <<>>
    IN  IF response = <<>> THEN found
        ELSE member_pages_from(pgs, page + 1, found \o transponder_ids_of_page(response))

\* get_transponder_ids_in_group; CT answers a request for a group it does
\* not know with a body that is no member list
get_transponder_ids_in_group(members, group) ==
    IF group \in DOMAIN members THEN Ok(member_pages_from(members[group], 1, <<>>))
    ELSE Err(<<"Deserialize">>)

\* join_all over the groups, then flatten_ok and collect: the first error in
\* the order of the groups, or the member lists of all groups
group_results(members, groups) ==
    [i \in 1..Len(groups) |-> get_transponder_ids_in_group(members, groups[i])]

permitted_of_groups(members, creator, groups) ==
    LET results == group_results(members, groups)
        failed == {i \in 1..Len(groups) : ~results[i].ok}
    IN  IF failed # {} THEN results[CHOOSE i \in failed : \A j \in failed : i <= j]
        ELSE Ok(get_permitted_transponders(creator,
                                           [i \in 1..Len(groups) |-> results[i].val]))

\* permitted_groups and permitted_transponders of get_relevant_bookings
permitted_of(x, members, creator) ==
    LET permitted_groups ==
            IF x.description = None THEN <<>>
            ELSE groups_from_description(x.description[1], group_magic_prefix)
    IN  permitted_of_groups(members, creator, permitted_groups)


\* the async block of get_relevant_bookings for one BookingsData: the times
\* come from the appointment when the booking has one
resolve_times ==
    /\ cPc = "times"
    /\ LET r == booking_times(ctIn.x, ctIn.appointment)
       IN  IF r.ok
           THEN /\ cTimes' = r.val
                /\ cPc' = "permitted"
                /\ cOut' = cOut
           ELSE /\ cOut' = r
                /\ cPc' = "done"
                /\ cTimes' = cTimes
    /\ UNCHANGED <<ctIn, cPermitted>>
    /\ UNCHANGED <<dbVars, syncVars, saltoVars, signalVars, authVars, memberVars>>

\* then the groups named in the note, their members and the creator
resolve_permitted ==
    /\ cPc = "permitted"
    /\ LET r == permitted_of(ctIn.x, ctIn.members, ctIn.creator)
       IN  IF r.ok
           THEN /\ cPermitted' = r.val
                /\ cPc' = "parse"
                /\ cOut' = cOut
           ELSE /\ cOut' = r
                /\ cPc' = "done"
                /\ cPermitted' = cPermitted
    /\ UNCHANGED <<ctIn, cTimes>>
    /\ UNCHANGED <<dbVars, syncVars, saltoVars, signalVars, authVars, memberVars>>

\* last the Booking is built: start_time is parsed, then end_time
resolve_parse ==
    /\ cPc = "parse"
    /\ LET start_time == parse_start_time(cTimes[1])
           end_time == parse_end_time(cTimes[2])
       IN  cOut' = IF ~start_time.ok THEN start_time
                   ELSE IF ~end_time.ok THEN end_time
                   ELSE Ok([resource_id |-> ctIn.x.resource_id,
                            permitted_transponders |-> cPermitted,
                            start_time |-> start_time.val,
                            end_time |-> end_time.val])
    /\ cPc' = "done"
    /\ UNCHANGED <<ctIn, cTimes, cPermitted>>
    /\ UNCHANGED <<dbVars, syncVars, saltoVars, signalVars, authVars, memberVars>>

\* a request to CT fails in transit: the appointment, a page of members or
\* the creator
ct_request_fails ==
    /\ \/ cPc = "times" /\ ctIn.x.appointment # None /\ cOut' = Err(<<"GetAppointments">>)
       \/ cPc = "permitted" /\ cOut' = Err(<<"GetGroupMembers">>)
    /\ cPc' = "done"
    /\ UNCHANGED <<ctIn, cTimes, cPermitted>>
    /\ UNCHANGED <<dbVars, syncVars, saltoVars, signalVars, authVars, memberVars>>

\* start and end strings CT may send: timestamps, dates alone, and strings
\* that are neither
Timestamps == {<<d, "T", t, o>> : d \in Dates, t \in {"h0", "h2"}, o \in Offsets}
DateStrings == {<<d>> : d \in Dates}
OtherStrings == {<<>>, <<"x">>, <<"D0", "T">>, <<"D0", "T", "h1">>, <<"D0", "x">>,
                 <<"D0", "T", "h1", "Z", "x">>}
TimeStrings == Timestamps \cup DateStrings \cup OtherStrings

\* Timeframe of an appointment
Timeframes ==
    {[start_date |-> <<"D0", "T", "h1", "Z">>, end_date |-> <<"D0", "T", "h2", "Z">>],
     [start_date |-> <<"D1", "T", "h1", "Z">>, end_date |-> <<"D1", "T", "h2", "Z">>],
     [start_date |-> <<"D1">>, end_date |-> <<"D1">>]}

\* calculatedDates: occurrences keyed by day
CalculatedDates ==
    {f \in UNION {[days -> Timeframes] : days \in SUBSET DateStrings} :
        \A d1 \in DOMAIN f, d2 \in DOMAIN f : d1 # d2 => f[d1] # f[d2]}

\* FullAppointmentData
AppointmentData ==
    [calculated_dates : {None} \cup {Some(f) : f \in CalculatedDates},
     calculated : {None, Some([start_date |-> <<"D0", "T", "h0", "Z">>,
                               end_date |-> <<"D0", "T", "h1", "Z">>])}]

\* booking notes up to MaxDescr characters
Descriptions == SeqsUpTo(DescrChars, MaxDescr)

\* the members of the groups CT knows, page by page, each person with or
\* without a transponder
CtGroupMembers ==
    {[g \in {1, 2} |-> IF g = 1 THEN <<<<Some(100), None>>, <<Some(200)>>>>
                                ELSE <<<<None>>, <<Some(300), Some(100)>>>>],
     [g \in {1, 2} |-> IF g = 1 THEN <<>> ELSE <<<<Some(100)>>>>]}

CtCreators == {None, Some(100), Some(400)}

\* a booking whose times vary, with or without an appointment
InitCtTimes ==
    /\ \E sd \in TimeStrings, ed \in TimeStrings, ap \in {None, Some(7)} :
       \E data \in IF ap = None THEN {[calculated_dates |-> None, calculated |-> None]}
                   ELSE AppointmentData :
           ctIn = [x |-> [resource_id |-> 1, appointment |-> ap, start_date |-> sd,
                          end_date |-> ed, description |-> Some(<<"#", "1">>)],
                   appointment |-> data,
                   members |-> [g \in {1} |-> <<<<Some(100)>>>>],
                   creator |-> None]

\* a booking whose note, group members and creator vary
InitCtNotes ==
    /\ \E descr \in {None} \cup {Some(d) : d \in Descriptions},
          members \in CtGroupMembers, creator \in CtCreators :
           ctIn = [x |-> [resource_id |-> 1, appointment |-> None,
                          start_date |-> <<"D0", "T", "h0", "Z">>,
                          end_date |-> <<"D0", "T", "h2", "Z">>, description |-> descr],
                   appointment |-> [calculated_dates |-> None, calculated |-> None],
                   members |-> members,
                   creator |-> creator]

InitResolver ==
    /\ InitDb
    /\ InitMembersIdle
    /\ InitSyncIdle
    /\ InitSaltoIdle
    /\ InitSignalIdle
    /\ InitAuthIdle
    /\ InitCtTimes \/ InitCtNotes
    /\ cPc = "times"
    /\ cTimes = <<>>
    /\ cPermitted = <<>>
    /\ cOut = Err(<<"pending">>)

NextCt ==
    \/ resolve_times
    \/ resolve_permitted
    \/ resolve_parse
    \/ ct_request_fails

SpecCt == InitResolver /\ [][NextCt]_vars

-----------------------------------------------------------------------------
(* Properties of the booking resolver                                      *)

IsTimestamp(s) ==
    /\ Len(s) = 4
    /\ s[1] \in Dates
    /\ s[2] = "T"
    /\ s[3] \in TimesOfDay
    /\ s[4] \in Offsets

IsDate(s) == Len(s) = 1 /\ s[1] \in Dates

\* the instant in UTC a timestamp denotes
InstantOf(s) == (DateOf(s[1]) * DayLen + TimeOfDayOf(s[3])) - OffsetOf(s[4])

\* the instant a start string and an end string stand for
StartInstant(s) == IF IsTimestamp(s) THEN InstantOf(s) ELSE DateOf(s[1]) * DayLen
EndInstant(s) == IF IsTimestamp(s) THEN InstantOf(s) ELSE DateOf(s[1]) * DayLen + DayLen - 1

\* the times of the resource booking itself
ResourceTimes == <<ctIn.x.start_date, ctIn.x.end_date>>

\* the day the booking starts on, as the key of calculatedDates
StartDay == IF ctIn.x.start_date = <<>> THEN <<>> ELSE <<Head(ctIn.x.start_date)>>

\* the resolution has got past the choice of the times
TimesChosen == cPc \in {"permitted", "parse"} \/ (cPc = "done" /\ cTimes # <<>>)

\* C23: a booking with an appointment takes the appointment's time for the
\* booking's own start day (the occurrence of that day when the appointment
\* has occurrences keyed by day, else its one calculated time), and the
\* Booking built carries the instants of that time; a booking without an
\* appointment takes the time of the resource booking.
C23_AppointmentOverride ==
    /\ TimesChosen =>
           IF ctIn.x.appointment = None THEN cTimes = ResourceTimes
           ELSE IF ctIn.appointment.calculated_dates # None
           THEN /\ StartDay \in DOMAIN ctIn.appointment.calculated_dates[1]
                /\ cTimes = <<ctIn.appointment.calculated_dates[1][StartDay].start_date,
                              ctIn.appointment.calculated_dates[1][StartDay].end_date>>
           ELSE /\ ctIn.appointment.calculated # None
                /\ cTimes = <<ctIn.appointment.calculated[1].start_date,
                              ctIn.appointment.calculated[1].end_date>>
    /\ (cPc = "done" /\ cOut.ok) =>
           /\ TimesChosen
           /\ cOut.val.start_time = StartInstant(cTimes[1])
           /\ cOut.val.end_time = EndInstant(cTimes[2])

\* a booking on day D1 whose appointment has occurrences on D0 and on D1 and
\* a calculated time as well: the Booking carries the occurrence of D1
C23_Witness ==
    /\ cPc = "done"
    /\ cOut.ok
    /\ ctIn.x.appointment # None
    /\ ctIn.x.start_date = <<"D1", "T", "h0", "Z">>
    /\ ctIn.appointment.calculated # None
    /\ ctIn.appointment.calculated_dates # None
    /\ DOMAIN ctIn.appointment.calculated_dates[1] = DateStrings
    /\ ctIn.appointment.calculated_dates[1][<<"D1">>].start_date = <<"D1", "T", "h1", "Z">>
    /\ cOut.val.start_time = DayLen + 1
    /\ cOut.val.end_time = DayLen + 2


\* the note of the booking
Note == ctIn.x.description[1]

\* the words of a note: first and last position of every maximal run of
\* characters other than whitespace
Spans(d) ==
    {s \in (1..Len(d)) \X (1..Len(d)) :
        /\ s[1] <= s[2]
        /\ \A i \in s[1]..s[2] : d[i] # " "
        /\ s[1] = 1 \/ d[s[1] - 1] = " "
        /\ s[2] = Len(d) \/ d[s[2] + 1] = " "}

\* a word of the form <prefix><gid>
IsGroupToken(w) ==
    /\ Len(w) > Len(group_magic_prefix)
    /\ SubSeq(w, 1, Len(group_magic_prefix)) = group_magic_prefix
    /\ \A i \in (Len(group_magic_prefix) + 1)..Len(w) : w[i] \in Digits

\* the number a string of digits denotes, from digit i on
RECURSIVE PlaceValue(_, _)
PlaceValue(ds, i) ==
    IF i > Len(ds) THEN 0 ELSE DigitOf(ds[i]) * 10 ^ (Len(ds) - i) + PlaceValue(ds, i + 1)

\* the group ids a note refers to
Referenced(d) ==
    {PlaceValue(SubSeq(d, s[1] + Len(group_magic_prefix), s[2]), 1) :
        s \in {t \in Spans(d) : IsGroupToken(SubSeq(d, t[1], t[2]))}}

\* the transponders of the members of a group, over all its pages
MemberTransponders(pgs) ==
    UNION {{pgs[k][i][1] : i \in {j \in DOMAIN pgs[k] : pgs[k][j] # None}} : k \in DOMAIN pgs}

\* the set the booking's permission must resolve to
ExpectedPermitted(d) ==
    UNION {MemberTransponders(ctIn.members[g]) : g \in Referenced(d)}
        \cup (IF ctIn.creator = None THEN {} ELSE {ctIn.creator[1]})

\* the words of a note in their order
WordList(d) ==
    LET n == Cardinality(Spans(d))
        order == CHOOSE f \in [1..n -> Spans(d)] : \A i, j \in 1..n : i < j => f[i][1] < f[j][1]
    IN  [i \in 1..n |-> SubSeq(d, order[i][1], order[i][2])]

\* words joined by single blanks
RECURSIVE Join(_)
Join(ws) ==
    IF ws = <<>> THEN <<>>
    ELSE IF Len(ws) = 1 THEN ws[1]
    ELSE ws[1] \o <<" ">> \o Join(Tail(ws))

\* the notes with the same words in another order
Reordered(d) ==
    LET ws == WordList(d)
        n == Len(ws)
    IN  {Join([i \in 1..n |-> ws[f[i]]]) :
            f \in {g \in [1..n -> 1..n] : \A i, j \in 1..n : i # j => g[i] # g[j]}}

\* the notes with one whitespace character doubled
DupWhitespace(d) ==
    {SubSeq(d, 1, i) \o <<" ">> \o SubSeq(d, i + 1, Len(d)) : i \in {j \in DOMAIN d : d[j] = " "}}

\* the permitted transponders have been collected
PermittedResolved == cPc = "parse" \/ (cPc = "done" /\ cOut.ok)

\* C24: the permitted transponders of a booking are, as a set, the
\* transponders of all members (of every page) of every group the note
\* refers to by a word <prefix><gid>, plus the creator's transponder if the
\* creator has one; persons without a transponder add nothing; the same set
\* results when the words of the note are reordered or a whitespace is doubled.
C24_PermissionResolution ==
    PermittedResolved =>
        IF ctIn.x.description = None
        THEN Range(cPermitted) = (IF ctIn.creator = None THEN {} ELSE {ctIn.creator[1]})
        ELSE /\ Referenced(Note) \subseteq DOMAIN ctIn.members
             /\ Range(cPermitted) = ExpectedPermitted(Note)
             /\ \A d2 \in Reordered(Note) \cup DupWhitespace(Note) :
                    LET r == permitted_of([ctIn.x EXCEPT !.description = Some(d2)],
                                          ctIn.members, ctIn.creator)
                    IN  r.ok /\ Range(r.val) = Range(cPermitted)

\* the note "#2 #1": group 1 has two pages of members and a member without
\* transponder, group 2 starts with a page of such members; the creator is in
\* no group
C24_Witness ==
    /\ cPc = "done"
    /\ cOut.ok
    /\ ctIn.x.description = Some(<<"#", "2", " ", "#", "1">>)
    /\ ctIn.creator = Some(400)
    /\ Len(ctIn.members[1]) = 2
    /\ Range(cOut.val.permitted_transponders) = {100, 200, 300, 400}


\* a start or end string the resolver accepts
IsTimeString(s) == IsTimestamp(s) \/ IsDate(s)

\* the step that parses the times and builds the Booking
ParseStep == cPc = "parse" /\ cPc' = "done"

\* C25: when the Booking is built, a start string that is a date alone gives
\* the first instant of that day in UTC and an end string that is a date
\* alone gives the last instant of that day in UTC; when the start string, or
\* else the end string, is neither a timestamp nor a date, the resolution
\* ends with the ParseTime error that carries this string.
C25_DateOnlyTimestamps ==
    [][ParseStep =>
          LET s == cTimes[1]
              e == cTimes[2]
          IN  /\ (IsTimeString(s) /\ IsTimeString(e)) =>
                     /\ cOut'.ok
                     /\ IsDate(s) => cOut'.val.start_time = DateOf(s[1]) * DayLen
                     /\ IsDate(e) => cOut'.val.end_time = (DateOf(e[1]) + 1) * DayLen - 1
              /\ ~IsTimeString(s) =>
                     /\ ~cOut'.ok
                     /\ cOut'.err[1] = "ParseTime"
                     /\ cOut'.err[3] = s
              /\ (IsTimeString(s) /\ ~IsTimeString(e)) =>
                     /\ ~cOut'.ok
                     /\ cOut'.err[1] = "ParseTime"
                     /\ cOut'.err[3] = e]_vars

\* an all-day booking from day D0 to day D1: it runs from the first instant
\* of D0 to the last instant of D1
C25_Witness ==
    /\ cPc = "done"
    /\ cOut.ok
    /\ cTimes = <<(<<"D0">>), (<<"D1">>)>>
    /\ cOut.val.start_time = 0
    /\ cOut.val.end_time = 2 * DayLen - 1

-----------------------------------------------------------------------------
(* Further properties of the encoder                                       *)

\* a booking that passes the window test of the booking loop
InWindow(c, t, b) == ~Expired(c, t, b) /\ ~NotYetRelevant(c, t, b)

\* no room of the configuration has the resource id of the booking
Unmapped(b) == \A i \in DOMAIN rooms : rooms[i].ct_id # b.resource_id

\* the booking loop of convert_to_staging_entries has run
LoopDone == pc \in {"get_ext_ids", "overwrite"}

\* C26: a booking inside the window whose resource has no configured zone is
\* skipped: the loop ends without error, the map of zone lists is the one
\* the other bookings of the batch alone produce, and every record in it is
\* the record of a booking of a configured room.
C26_UnmappedRoomDropped ==
    /\ [][pc = "convert" => pc' = "get_ext_ids" /\ cycleErr' = "none"]_vars
    /\ [](LoopDone =>
             \A i \in DOMAIN bookings :
                 (InWindow(cfg, convNow, bookings[i]) /\ Unmapped(bookings[i]))
                 => /\ zoneLists = ext_zone_id_list_by_transponder(
                                       EmptyMap, cfg, convNow, RemoveAt(bookings, i))
                    /\ \A t \in DOMAIN zoneLists :
                           \A k \in DOMAIN zoneLists[t] :
                               \E j \in DOMAIN bookings :
                                   /\ j # i
                                   /\ ~Unmapped(bookings[j])
                                   /\ zoneLists[t][k] = RecordOf(bookings[j]))

\* a batch of a booking of the unconfigured resource 2 and a booking of a
\* configured room, both inside the window and for the same transponder
C26_Witness ==
    /\ pc = "get_ext_ids"
    /\ Len(bookings) = 2
    /\ bookings[1].resource_id = 2
    /\ bookings[2].resource_id = 1
    /\ InWindow(cfg, convNow, bookings[1])
    /\ InWindow(cfg, convNow, bookings[2])
    /\ bookings[1].permitted_transponders = <<100>>
    /\ bookings[2].permitted_transponders = <<100>>
    /\ zoneLists[100] = <<RecordOf(bookings[2])>>


\* the transponders of the cycle the directory has an external id for
Known == {t \in DOMAIN extIds : extIds[t] # None}

\* the staging entry of a transponder with an external id
EntryOf(t) == [ext_user_id |-> extIds[t][1], ext_zone_id_list |-> zoneLists[t]]

\* C27: the staging entries of a cycle are the entries of the transponders
\* that have a zone list and an external id, one each, every one with the
\* whole zone list of its transponder, which is not empty; a transponder
\* without external id has no entry.
C27_UnknownTransponderDropped ==
    pc = "overwrite" =>
        /\ DOMAIN extIds = DOMAIN zoneLists
        /\ Len(entries) = Cardinality(Known)
        /\ \A t \in Known : \E k \in DOMAIN entries : entries[k] = EntryOf(t)
        /\ \A k \in DOMAIN entries :
              /\ entries[k].ext_zone_id_list # <<>>
              /\ entries[k].ext_user_id \in ExtIds
              /\ \E t \in Known : entries[k] = EntryOf(t)

\* transponders 100 and 200 both have grants, the directory knows 100 only:
\* the one entry is that of 100
C27_Witness ==
    /\ pc = "overwrite"
    /\ DOMAIN zoneLists = {100, 200}
    /\ extIds[100] # None
    /\ extIds[200] = None
    /\ entries = <<EntryOf(100)>>

-----------------------------------------------------------------------------
(* Part 6: the password sent to Salto (salto.rs)                            *)

\* bytes of the salt and of a SHA-256 digest
SaltLen == 32
DigestLen == 32

\* u64::to_le_bytes and u32::to_le_bytes: `width` bytes, least significant first
RECURSIVE to_le_bytes(_, _)
to_le_bytes(n, width) ==
    IF width = 0 THEN <<>> ELSE <<n % 256>> \o to_le_bytes(n \div 256, width - 1)

HexDigits == <<"0", "1", "2", "3", "4", "5", "6", "7", "8", "9", "a", "b", "c", "d", "e", "f">>

\* hex::encode of bytes: two lower-case digits per byte, high nibble first
hex_encode(bytes) ==
    [k \in 1..(2 * Len(bytes)) |->
        LET b == bytes[(k + 1) \div 2]
        IN  HexDigits[(IF k % 2 = 1 THEN b \div 16 ELSE b % 16) + 1]]

\* str::as_bytes for the characters that occur (hex digits, p, w): their
\* ASCII codes
AsciiOf(c) ==
    CASE c \in {HexDigits[i] : i \in 1..10} -> 47 + (CHOOSE i \in 1..10 : HexDigits[i] = c)
      [] c \in {HexDigits[i] : i \in 11..16} -> 86 + (CHOOSE i \in 11..16 : HexDigits[i] = c)
      [] c = "p" -> 112
      [] OTHER -> 119

as_bytes(str) == [i \in 1..Len(str) |-> AsciiOf(str[i])]

\* Sha256::new(), update(..), finalize(): DigestLen bytes that are determined
\* by the message and differ between different messages
Sha256(message) == [i \in 1..DigestLen |-> [sha256_of |-> message, byte |-> i]]

\* hex::encode of a digest: two digits per byte
hex_encode_digest(digest) ==
    [k \in 1..(2 * Len(digest)) |->
        [hex_of |-> digest[(k + 1) \div 2], half |-> IF k % 2 = 1 THEN "hi" ELSE "lo"]]

\* salto_salt: seconds since the epoch, milliseconds, then random bytes
salt_bytes(secs, millis, random) == to_le_bytes(secs, 8) \o to_le_bytes(millis, 4) \o random

\* salto_password_hash for the salt String that salto_salt returned
salto_password_hash(pw, salto_salt) ==
    salto_salt \o hex_encode_digest(Sha256(as_bytes(salto_salt) \o as_bytes(pw)))

\* what the clock and the random number generator may deliver
ClockSecs == {0, 300, 1700000000}
ClockMillis == {0, 999}
RandomBytes == {[i \in 1..(SaltLen - 12) |-> b] : b \in {0, 10, 171, 255}}

Passwords == {<<>>, <<"p", "w">>, <<"p", "w", "1">>}

\* salto_salt() is called: the clock is read and the random bytes are drawn
salto_salt ==
    /\ aPc = "salt"
    /\ \E secs \in ClockSecs, millis \in ClockMillis, random \in RandomBytes :
           raw_bytes' = salt_bytes(secs, millis, random)
    /\ aPc' = "hash"
    /\ UNCHANGED <<password, complete_hash>>
    /\ UNCHANGED <<dbVars, syncVars, saltoVars, signalVars, ctVars, memberVars>>

\* the rest of salto_password_hash: hash, concatenate, return
salto_password_hash_returns ==
    /\ aPc = "hash"
    /\ complete_hash' = salto_password_hash(password, hex_encode(raw_bytes))
    /\ aPc' = "done"
    /\ UNCHANGED <<password, raw_bytes>>
    /\ UNCHANGED <<dbVars, syncVars, saltoVars, signalVars, ctVars, memberVars>>

InitAuth ==
    /\ InitDb
    /\ InitMembersIdle
    /\ InitSyncIdle
    /\ InitSaltoIdle
    /\ InitSignalIdle
    /\ InitCtIdle
    /\ password \in Passwords
    /\ aPc = "salt"
    /\ raw_bytes = <<>>
    /\ complete_hash = <<>>

NextAuth ==
    \/ salto_salt
    \/ salto_password_hash_returns

SpecAuth == InitAuth /\ [][NextAuth]_vars

-----------------------------------------------------------------------------
(* Properties of the password                                              *)

\* C28, as stated: the String returned has 2 * SaltLen + 2 * DigestLen = 128
\* characters, the hex digits of the salt followed by the hex digits of the
\* SHA-256 digest of the raw salt bytes followed by the bytes of the password.
C28_HashOverRawSalt ==
    aPc = "done" =>
        /\ Len(complete_hash) = 2 * SaltLen + 2 * DigestLen
        /\ SubSeq(complete_hash, 1, 2 * SaltLen) = hex_encode(raw_bytes)
        /\ SubSeq(complete_hash, 2 * SaltLen + 1, Len(complete_hash)) =
               hex_encode_digest(Sha256(raw_bytes \o as_bytes(password)))

-----------------------------------------------------------------------------
(* Further properties of the reconciler                                    *)

\* one turn of the upsert loop
UpsertStep == dbPc = "upsert" /\ nextEntry' = nextEntry + 1

\* the rows of ext id `id` that a statement inside the transaction sees
RowsOf(tbl, id) == {r \in tbl : r.ExtID = id}

\* the row an upsert of entry e leaves when a row of its ext id exists
UpsertedRow(e) ==
    [ExtID |-> e.ext_user_id,
     ExtZoneIDList |-> e.ext_zone_id_list,
     ToBeProcessedBySalto |-> 1,
     ProcessedDateTime |-> NULL,
     ErrorCode |-> NULL,
     ErrorMessage |-> NULL]

\* C29: an upsert of an entry whose ext id already has a row leaves that row
\* with the entry's zone list, ToBeProcessedBySalto = 1 and ProcessedDateTime,
\* ErrorCode and ErrorMessage NULL, whatever the row held before (the same
\* list or another, processed by Salto or not, with or without an error), and
\* leaves every other row as it was.
C29_UpsertResetsBookkeeping ==
    [][UpsertStep =>
          LET e == entries[nextEntry]
          IN  RowsOf(TxView, e.ext_user_id) # {} =>
                  /\ RowsOf(TxView', e.ext_user_id) = {UpsertedRow(e)}
                  /\ \A r \in TxView : r.ExtID # e.ext_user_id => r \in TxView']_vars

\* a second cycle with the same entries upserts onto a row that Salto has
\* processed with an error since the first cycle and whose zone list is
\* already the entry's
C29_Witness ==
    /\ dbPc = "upsert"
    /\ snapshot # <<>>
    /\ nextEntry = 2
    /\ \E r \in table :
          /\ r.ExtID = entries[1].ext_user_id
          /\ r.ExtZoneIDList = entries[1].ext_zone_id_list
          /\ r.ToBeProcessedBySalto = 0
          /\ r.ProcessedDateTime # NULL
          /\ r.ErrorCode # NULL
    /\ UpsertedRow(entries[1]) \in TxView


\* the awaited steps of overwrite_staging_table_with, in program order
StepOrder == <<"begin", "read", "remove", "upsert", "commit">>

InTransaction == \E k \in DOMAIN StepOrder : StepOrder[k] = dbPc

StepRank(p) == CHOOSE k \in DOMAIN StepOrder : StepOrder[k] = p

\* ext ids blanked, and positions of the entries upserted, by the open transaction
RemovedIds == {txLog[i].ext_id : i \in {j \in DOMAIN txLog : txLog[j].op = "remove"}}

UpsertsLogged == SelectSeq(txLog, LAMBDA st : st.op = "upsert")

\* the ids read at the start that no entry names
StaleAtStart == existing \ DesiredIds(entries)

\* the order of the statements the open transaction has issued
StatementsOrdered ==
    /\ \A i, j \in DOMAIN txLog :
          txLog[i].op = "upsert" /\ txLog[j].op = "remove" => i > j
    /\ dbPc \in {"begin", "read"} => txLog = <<>>
    /\ dbPc = "remove" => UpsertsLogged = <<>> /\ RemovedIds \cup staleLeft = StaleAtStart
    /\ dbPc \in {"upsert", "commit"} =>
          /\ staleLeft = {}
          /\ RemovedIds = StaleAtStart
          /\ Len(UpsertsLogged) = nextEntry - 1
          /\ \A i \in DOMAIN UpsertsLogged : UpsertsLogged[i].entry = entries[i]
    /\ dbPc = "commit" => Len(UpsertsLogged) = Len(entries)
    /\ InTransaction =>
          /\ RemovedIds \subseteq existing
          /\ \A i \in DOMAIN UpsertsLogged :
                UpsertsLogged[i].entry.ext_user_id \notin RemovedIds

\* the steps of one call follow the program order, the ids are read once and
\* before any statement writes, and nothing reaches the table before commit
StepsOrdered ==
    /\ InTransaction /\ dbPc' # dbPc /\ dbPc' # "err" =>
          \/ dbPc = "commit" /\ dbPc' = "ok"
          \/ dbPc # "commit" /\ dbPc' = StepOrder[StepRank(dbPc) + 1]
    /\ InTransaction /\ existing' # existing =>
          /\ dbPc = "read" /\ dbPc' = "remove"
          /\ txLog = <<>>
          /\ existing' = {r.ExtID : r \in table}
    /\ InTransaction /\ dbPc # "read" /\ dbPc' # "begin" => existing' = existing
    /\ InTransaction /\ ReconcilerStep /\ table' # table =>
          /\ CommitStep
          /\ table' = ApplyLog(table, txLog)

\* C30: one call of overwrite_staging_table_with runs begin, read, remove
\* loop, upsert loop, commit in that order inside one transaction: the ids
\* are read once while no statement has been issued, every stale id is
\* blanked before the first upsert, every entry is upserted before the
\* commit, the table changes only at commit, and the blanked ids are exactly
\* the ids read at the start that no entry names, so no row this call upserts
\* is blanked by it.
C30_StepsStrictlyOrdered == []StatementsOrdered /\ [][StepsOrdered]_vars

\* a call about to commit that has blanked a stale row and then upserted an
\* entry whose id was not among the ids read
C30_Witness ==
    /\ dbPc = "commit"
    /\ RemovedIds # {}
    /\ \E i \in DOMAIN entries : entries[i].ext_user_id \notin existing

-----------------------------------------------------------------------------
(* Further properties of the directory enumeration                         *)

\* the startingItem of the k-th page request of an enumeration
ExpectedStartingItem(k) ==
    IF k = 1 THEN None ELSE Some(pages[k - 1][Len(pages[k - 1])])

\* C31: the first page request of an enumeration carries no startingItem,
\* and the k-th request (k > 1) carries the complete raw last record of the
\* page the (k-1)-th request returned, whether or not that record parses
\* into a user; a request is sent only after the page before it arrived.
C31_CursorProtocol ==
    /\ Len(requests) <= served + 1
    /\ \A k \in DOMAIN requests : requests[k] = ExpectedStartingItem(k)

\* the third request of an enumeration was sent, and the second and third
\* carry records that do not parse into a user
C31_Witness ==
    /\ Len(requests) = 3
    /\ requests[1] = None
    /\ ~from_value(requests[2][1]).ok
    /\ from_value(pages[1][1]).ok
    /\ requests[3] = Some(pages[2][Len(pages[2])])
    /\ Len(pages[1]) = PageSize

\* page fetches of this call that have resolved: pages delivered, the empty
\* page that ended the stream, failed fetches
FetchesResolved ==
    served + (IF rPc = "ok" THEN 1 ELSE 0) + failures

\* page fetches created and not yet resolved
FetchesInFlight == Len(requests) - FetchesResolved

\* a step in which poll_next creates a page-fetch future
CreatesFetch == Len(requests') = Len(requests) + 1

\* a step in which poll_next polls the queued fetch and returns Pending
ReturnsPending == current_future = "pending" /\ current_future' = "pending" /\ polls' # polls

\* C32: poll_next creates a page-fetch future only when the buffered page is
\* used up and no fetch is queued; at most one fetch is in flight, and one is
\* in flight exactly while current_future is set, during which the buffer is
\* empty; a poll that returns Pending yields nothing, drops nothing and
\* leaves buffer, cursor and requests as they were.
C32_BufferDrainsBeforeRefetch ==
    /\ [](/\ FetchesInFlight \in {0, 1}
          /\ FetchesInFlight = 1 <=> current_future = "pending"
          /\ current_future = "pending" => on_last_page = <<>>)
    /\ [][/\ CreatesFetch =>
                /\ on_last_page = <<>>
                /\ current_future = "none"
                /\ current_future' = "pending"
                /\ yielded' = yielded
          /\ ReturnsPending =>
                /\ yielded' = yielded
                /\ on_last_page' = on_last_page
                /\ last_page_full_last_entry' = last_page_full_last_entry
                /\ requests' = requests
                /\ res' = res
                /\ rPc' = rPc]_vars

\* the fetch of the second page was polled MaxPolls times without being
\* ready, after both records of the first page had been yielded
C32_Witness ==
    /\ current_future = "pending"
    /\ polls = MaxPolls
    /\ Len(requests) = 2
    /\ Len(yielded) = PageSize
    /\ Len(pages) = 2

\* the step in which a call builds its map and its stream
BuildsStream == rPc = "start" /\ rPc' # "start"

\* C33: every call of get_ext_ids_by_transponder, the first and any later
\* one, however the call before it ended (Ok, or Err with a cursor left),
\* starts from a map with None for every input transponder and a stream
\* with empty buffer, no cursor and no queued fetch; its first request
\* carries no startingItem, which asks for the first page; and an external
\* id in the map it returns is the id of a record the stream of this call
\* has yielded for that transponder.
C33_RestartedPerCall ==
    /\ [][BuildsStream =>
              /\ DOMAIN res' = keys
              /\ \A t \in keys : res'[t] = None
              /\ on_last_page' = <<>>
              /\ last_page_full_last_entry' = None
              /\ current_future' = "none"]_vars
    /\ [](requests # <<>> => Head(requests) = None)
    /\ [](rPc = "ok" =>
              \A t \in keys :
                  res[t] # None =>
                      \E i \in DOMAIN yielded : /\ yielded[i].ok
                                                /\ yielded[i].transponder_id = t
                                                /\ yielded[i].ext_id = res[t][1])

\* a second call has returned Ok without an external id for transponder 100,
\* which the call before it had found in a page that is gone since; that
\* call had ended with a cursor set
C33_Witness ==
    /\ calls = 2
    /\ rPc = "ok"
    /\ 100 \in keys
    /\ res[100] = None
    /\ earlier[1].ended = "ok"
    /\ earlier[1].res[100] # None
    /\ earlier[1].cursor # None
    /\ pages # <<>>

\* a second call has returned Ok after the call before it had failed on its
\* second page
C33_WitnessAfterError ==
    /\ calls = 2
    /\ rPc = "ok"
    /\ earlier[1].ended = "err"
    /\ earlier[1].served = 1

\* a step in which the queued page fetch resolves with an error
FetchFailure == current_future = "pending" /\ failures' = failures + 1

\* a step in which the stream is polled again after it yielded a fetch error
PolledAfterError == rPc = "err" /\ rPc' # "err"

\* C34: a failed page fetch leaves buffer and cursor of the stream as they
\* were and clears current_future, yielding only the error; the stream has
\* not ended: the next poll queues a fetch again, and its request carries
\* the same startingItem as the request that failed. Under a failure that
\* persists every further poll does the same.
C34_FailedFetchRetriesSameRequest ==
    [][/\ FetchFailure =>
              /\ on_last_page' = on_last_page
              /\ last_page_full_last_entry' = last_page_full_last_entry
              /\ current_future' = "none"
              /\ requests' = requests
              /\ yielded' = yielded
              /\ sErr' \in {"CannotGetUsers", "DeserializeReqwest"}
       /\ PolledAfterError =>
              /\ current_future' = "pending"
              /\ Len(requests') = Len(requests) + 1
              /\ requests'[Len(requests')] = requests[Len(requests)]
              /\ on_last_page' = on_last_page
              /\ last_page_full_last_entry' = last_page_full_last_entry]_vars

\* the fetch of the second page has failed MaxFailures times in a row, each
\* time asked for with the last record of the first page
C34_Witness ==
    /\ rPc = "err"
    /\ failures = MaxFailures
    /\ served = 1
    /\ Len(requests) = MaxFailures + 1
    /\ \A k \in 2..Len(requests) : requests[k] = Some(pages[1][Len(pages[1])])
    /\ Len(pages) = 2

-----------------------------------------------------------------------------
(* Further properties of the booking resolver                              *)

\* the day handed to get_appointment: the start string up to its first T
LookupDay == split_T_first(ctIn.x.start_date)

\* the booking comes from an appointment that has occurrences keyed by day,
\* none of them for the day the booking starts on
NoOccurrenceOnDay ==
    /\ ctIn.x.appointment # None
    /\ ctIn.appointment.calculated_dates # None
    /\ LookupDay \notin DOMAIN ctIn.appointment.calculated_dates[1]

\* the booking comes from an appointment that has neither occurrences keyed
\* by day nor a calculated time
NoCalculatedTime ==
    /\ ctIn.x.appointment # None
    /\ ctIn.appointment.calculated_dates = None
    /\ ctIn.appointment.calculated = None

\* the response to the appointment request has arrived and was looked at
AppointmentLookedUp == cPc # "times" /\ ~(cPc = "done" /\ cOut = Err(<<"GetAppointments">>))

\* C35: once the response for the appointment of a booking was looked at, a
\* day-keyed map without the booking's start day has ended the resolution
\* with NoCalculatedDateTimeOnDay(appointment id, day), whether or not the
\* appointment has a calculated time besides, and an appointment with
\* neither map nor calculated time has ended it with
\* NoCalculatedDateTime(appointment id); no times were chosen and no Booking
\* was built. (Before that, only the request itself can fail.)
C35_MissingAppointmentTime ==
    /\ AppointmentLookedUp =>
        /\ NoOccurrenceOnDay =>
              /\ cPc = "done"
              /\ cOut = [ok |-> FALSE,
                         err |-> <<"NoCalculatedDateTimeOnDay", ctIn.x.appointment[1], LookupDay>>]
              /\ cTimes = <<>>
        /\ NoCalculatedTime =>
              /\ cPc = "done"
              /\ cOut = [ok |-> FALSE,
                         err |-> <<"NoCalculatedDateTime", ctIn.x.appointment[1]>>]
              /\ cTimes = <<>>
    /\ (NoOccurrenceOnDay \/ NoCalculatedTime) => ~(cPc = "done" /\ cOut.ok)

\* a booking on day D1 whose appointment has an occurrence on D0 only, and a
\* calculated time as well, has failed for lack of an occurrence on D1
C35_Witness ==
    /\ cPc = "done"
    /\ NoOccurrenceOnDay
    /\ LookupDay = <<"D1">>
    /\ DOMAIN ctIn.appointment.calculated_dates[1] = {<<"D0">>}
    /\ ctIn.appointment.calculated # None
    /\ cOut = Err(<<"NoCalculatedDateTimeOnDay", 7, <<"D1">>>>)

\* a booking whose appointment has no time at all has failed
C35_WitnessNoTime ==
    /\ cPc = "done"
    /\ NoCalculatedTime
    /\ cOut = Err(<<"NoCalculatedDateTime", 7>>)

-----------------------------------------------------------------------------
(* Part 7: get_transponder_ids_in_group (ct.rs), request by request         *)

MaxMemberPages == 3
MaxPersons == 2

\* the requests the model follows one call for
MaxRequests == MaxMemberPages + 2

\* personFields.transponderId of a member
Persons == {None, Some(100), Some(200)}

\* the data of one response, empty or not
MemberPages == SeqsUpTo(Persons, MaxPersons)

\* the page CT sends once the pages it holds are used up by a server that
\* never sends an empty one
FillerPage == <<Some(100)>>

\* what CT answers to the request for page n
member_response(n) ==
    IF n <= Len(mServer.pages) THEN mServer.pages[n]
    ELSE IF mServer.after = "empty" THEN <<>> ELSE FillerPage

\* an error arm that hands back what was collected so far
partial_on_error(found, e) == Ok(found)

\* the three error arms of the request: return Err(..), res is dropped
on_member_page_error(found, e) == Err(<<e>>)

\* page += 1 and the request for that page is sent
member_request_sent ==
    /\ mPc = "loop"
    /\ mPage < MaxRequests
    /\ mPage' = mPage + 1
    /\ mRequests' = Append(mRequests, mPage')

\* the response holds members: res.extend(filter_map(transponder_id))
member_page_arrives ==
    /\ member_request_sent
    /\ member_response(mPage') # <<>>
    /\ mRes' = mRes \o transponder_ids_of_page(member_response(mPage'))
    /\ UNCHANGED <<mServer, mPc, mOut>>
    /\ UNCHANGED <<dbVars, syncVars, saltoVars, signalVars, ctVars, authVars>>

\* response.data.is_empty(): break, Ok(res)
member_empty_page_arrives ==
    /\ member_request_sent
    /\ member_response(mPage') = <<>>
    /\ mPc' = "returned"
    /\ mOut' = Ok(mRes)
    /\ UNCHANGED <<mServer, mRes>>
    /\ UNCHANGED <<dbVars, syncVars, saltoVars, signalVars, ctVars, authVars>>

\* the request fails, its body is no utf-8 or no member list
member_page_fails ==
    /\ member_request_sent
    /\ \E e \in {"GetGroupMembers", "Utf8Decode", "Deserialize"} :
          mOut' = on_member_page_error(mRes, e)
    /\ mPc' = "returned"
    /\ mRes' = <<>>
    /\ UNCHANGED mServer
    /\ UNCHANGED <<dbVars, syncVars, saltoVars, signalVars, ctVars, authVars>>

InitMembers ==
    /\ InitDb
    /\ InitSyncIdle
    /\ InitSaltoIdle
    /\ InitSignalIdle
    /\ InitCtIdle
    /\ InitAuthIdle
    /\ mServer \in [pages : SeqsUpTo(MemberPages, MaxMemberPages), after : {"empty", "full"}]
    /\ mPage = 0
    /\ mRes = <<>>
    /\ mPc = "loop"
    /\ mOut = Err(<<"pending">>)
    /\ mRequests = <<>>

NextMembers ==
    \/ member_page_arrives
    \/ member_empty_page_arrives
    \/ member_page_fails

SpecMembers == InitMembers /\ [][NextMembers]_vars

\* every request is answered
SpecMembersLive == SpecMembers /\ WF_vars(NextMembers)

\* the transponder ids of the members of a page that have one
PresentIds(page) ==
    LET present == SelectSeq(page, LAMBDA person : person # None)
    IN  [i \in 1..Len(present) |-> present[i][1]]

\* the ids on pages 1..k
RECURSIVE IdsOnPages(_)
IdsOnPages(k) == IF k = 0 THEN <<>> ELSE IdsOnPages(k - 1) \o PresentIds(member_response(k))

\* the number of the first empty page CT would send, 0 if it never sends one
FirstEmptyPage ==
    LET empty == {n \in 1..(Len(mServer.pages) + 1) : member_response(n) = <<>>}
    IN  IF empty = {} THEN 0 ELSE CHOOSE n \in empty : \A m \in empty : n <= m

\* C36: get_transponder_ids_in_group requests pages 1, 2, 3, ... in order;
\* it returns Ok only on the first empty page, with the transponder ids of
\* the members of all pages before it, in order, members without one left
\* out, and so never returns Ok from a server that sends no empty page; a
\* failure on any page returns Err without any ids; and when the server has
\* an empty page to send the call returns.
C36_MemberListing ==
    /\ [](/\ mRequests = [k \in 1..mPage |-> k]
          /\ (mPc = "returned" /\ mOut.ok) =>
                /\ mPage = FirstEmptyPage
                /\ mOut.val = IdsOnPages(mPage - 1)
          /\ (mPc = "returned" /\ ~mOut.ok) =>
                /\ mOut \in {Err(<<e>>) : e \in {"GetGroupMembers", "Utf8Decode", "Deserialize"}}
                /\ mRes = <<>>
          /\ mPc = "loop" => (mPage < FirstEmptyPage \/ FirstEmptyPage = 0)
          /\ FirstEmptyPage = 0 => ~(mPc = "returned" /\ mOut.ok))
    /\ (FirstEmptyPage # 0 => <>(mPc = "returned"))

\* a listing over two pages, one member without a transponder on each, has
\* returned on the empty third page although CT holds a fourth page
C36_Witness ==
    /\ mPc = "returned"
    /\ mOut = Ok(<<100, 200>>)
    /\ mRequests = <<1, 2, 3>>
    /\ Len(mServer.pages) = 3
    /\ mServer.pages[1] = <<Some(100), None>>
    /\ mServer.pages[2] = <<None, Some(200)>>
    /\ mServer.pages[3] = <<>>

\* a listing has failed on its third page after two pages with members
C36_WitnessFailure ==
    /\ mPc = "returned"
    /\ ~mOut.ok
    /\ mPage = 3
    /\ IdsOnPages(2) # <<>>

\* a listing is still asking a server that never sends an empty page
C36_WitnessNoEnd ==
    /\ mPc = "loop"
    /\ FirstEmptyPage = 0
    /\ mPage = MaxRequests

-----------------------------------------------------------------------------
(* Further properties of a cycle                                           *)

\* two transponders with grants that the directory resolves to one user
SameUser(t1, t2) ==
    /\ t1 \in DOMAIN extIds /\ t2 \in DOMAIN extIds
    /\ t1 # t2
    /\ extIds[t1] # None
    /\ extIds[t1] = extIds[t2]

\* the positions of the entries of external id `id` in the desired list
EntriesOf(id) == {i \in DOMAIN entries : entries[i].ext_user_id = id}

-----------------------------------------------------------------------------
(* The bounds of the window                                                *)

\* now is the last instant of the posthold of b
AtEndOfPosthold(c, t, b) == t = b.end_time + c.posthold_time

\* now is the first instant at which the prehold of b starts within
\* sync_frequency
AtStartOfLookahead(c, t, b) == t = b.start_time - c.prehold_time - c.sync_frequency

\* b is a booking of a mapped room that permits somebody
Grants(b) == room_ext_id(b.resource_id) # None /\ b.permitted_transponders # <<>>

\* the record of b is in the zone list of every transponder b permits
RecordWritten(b) ==
    \A t \in Range(b.permitted_transponders) :
        t \in DOMAIN zoneLists /\ RecordOf(b) \in Range(zoneLists[t])

\* C38: the bounds of the window are inclusive: a booking with
\* now = end_time + posthold_time, or with
\* now = start_time - prehold_time - sync_frequency, is kept and its record
\* is written for every transponder it permits; a booking is left out only
\* when now is strictly beyond one of the two bounds.
C38_WindowBoundsInclusive ==
    pc = "get_ext_ids" =>
        \A i \in DOMAIN bookings :
            LET b == bookings[i]
            IN  Grants(b) =>
                    /\ (AtEndOfPosthold(cfg, convNow, b) \/ AtStartOfLookahead(cfg, convNow, b))
                           => RecordWritten(b)
                    /\ RecordWritten(b) <=>
                           /\ convNow <= b.end_time + cfg.posthold_time
                           /\ convNow >= b.start_time - cfg.prehold_time - cfg.sync_frequency

\* the loop has kept a booking whose posthold ends now and a booking whose
\* prehold starts exactly sync_frequency from now, with holds that are not 0
C38_Witness ==
    /\ pc = "get_ext_ids"
    /\ Len(bookings) = 2
    /\ cfg.posthold_time > 0
    /\ cfg.prehold_time > 0
    /\ Grants(bookings[1]) /\ Grants(bookings[2])
    /\ AtEndOfPosthold(cfg, convNow, bookings[1])
    /\ AtStartOfLookahead(cfg, convNow, bookings[2])
    /\ RecordWritten(bookings[1])
    /\ RecordWritten(bookings[2])

====
